---- MODULE Spec2Model ----
(***************************************************************************)
(* rent_radar: the crawl-and-reconcile pipeline.                           *)
(*                                                                         *)
(*   - the listings store and its two writers, upsert_listings (PostgreSQL *)
(*     bulk path and portable row-by-row path) and                         *)
(*     deactivate_stale_listings             (src/src/db/repositories.py)  *)
(*   - the dedup lock                        (src/src/taskiq_app/dedup.py) *)
(*   - the scheduled tasks and enqueue helpers                             *)
(*                                           (src/src/taskiq_app/tasks.py) *)
(*   - ZigbangCrawler.run                    (src/src/crawlers/zigbang.py) *)
(*                                                                         *)
(* Time is an integer number of seconds.  Strings built by join/f-string   *)
(* are sequences of tokens with the separators kept as tokens.             *)
(***************************************************************************)
EXTENDS Integers, Sequences, FiniteSets, TLC

VARIABLES
    listings,       \* table listings: a set of rows
    price_changes,  \* table price_changes in insertion order
    next_id,        \* the listings id sequence
    dialect,        \* session.get_bind().dialect.name
    now,            \* the clock, in seconds
    last,           \* the last store call: its arguments and result
    applied,        \* per natural key, the record most recently applied (<<>>: none)
    locks,          \* the lock store (_MEMORY_LOCKS or Redis): key -> expiry
    taskiq_testing, \* settings.taskiq_testing: the in-memory lock store is used
    held,           \* per key, the acquisition in force: <<[at, ttl]>> or <<>>
    lastLock,       \* the last lock call: its arguments and result
    enqueued,       \* the enqueue requests made: request, time and outcome
    broker_queue,   \* the tasks submitted to the broker, with their arguments
    workers,        \* per worker, the task invocation it is running
    notifications,  \* the Telegram messages delivered
    real_trades,    \* table real_trades in insertion order
    taskLog,        \* invocations started, clock advances, and whether a run
                    \* has outlived its lock
    run,            \* one ZigbangCrawler.run(): its locals and its outcome
    race,           \* an upsert_listings and a deactivate_stale_listings
                    \* transaction running side by side
    request,        \* one crawler's _request_json_with_retry calls
    naver,          \* one NaverCrawler.run(): the articles and the rows
    tradeLog,       \* the last upsert_real_trades call: arguments and result
    search,         \* the search cache and the last search_rent call
    favorites,      \* the favorites table
    pages,          \* one page loop of a crawler
    sleeps          \* the cell loop of one ZigbangCrawler.run(): its sleeps

storeVars == <<listings, price_changes, next_id, dialect>>

storeGhost == <<last, applied>>
lockVars == <<locks, taskiq_testing>>
lockGhost == <<held, lastLock>>

vars == <<listings, price_changes, next_id, dialect, now, last, applied,
          locks, taskiq_testing, held, lastLock, enqueued, broker_queue,
          workers, notifications, real_trades, taskLog, run,
          race, request, naver, tradeLog, search, favorites, pages, sleeps>>

enqueueVars == <<enqueued, broker_queue>>
taskVars == <<workers, notifications, real_trades, taskLog>>
crawlVars == <<run>>
raceVars == <<race>>
requestVars == <<request>>
naverVars == <<naver>>
tradeGhost == <<tradeLog>>
searchVars == <<search>>
favoriteVars == <<favorites>>
pageVars == <<pages>>
sleepVars == <<sleeps>>
\* the state of the parts added after the crawler
laterVars == <<raceVars, requestVars, naverVars, tradeGhost, searchVars, favoriteVars, pageVars, sleepVars>>

\* what the store's actions leave alone
notStore == <<lockVars, lockGhost, enqueueVars, taskVars, crawlVars, laterVars>>
\* what the lock's actions leave alone
notLock == <<storeVars, storeGhost, enqueueVars, taskVars, crawlVars, laterVars>>

None == "None"

----------------------------------------------------------------------------
(* Bounds *)

MaxBatch == 2       \* rows in one upsert_listings call
MaxUpserts == 2     \* upsert_listings calls in one behaviour
MaxReaps == 1       \* deactivate_stale_listings calls in one behaviour
MaxTicks == 2       \* clock advances in one behaviour

HOUR == 3600
ClockStep == 24 * HOUR

----------------------------------------------------------------------------
(* Inputs of the store *)

ListingKeys == {<<"zigbang", "1">>, <<"zigbang", "2">>, <<"naver", "1">>}
Sources == {"zigbang", "naver"}
\* the incoming values of one record: deposit, rent_type, monthly_rent,
\* address, property_type.  address stands for the descriptive columns
\* (address, dong, detail_address, area_m2, floor, total_floors,
\* description, latitude, longitude), which both paths copy alike.
\* Against the first, the others change the deposit alone, the monthly
\* rent (and rent_type) alone, and the description (and property_type) alone.
\* The listing zigbang/1 takes all four, the other two the first two.
Variants ==
    {<<50000, "jeonse", 0, "addr_a", "apt">>,
     <<48000, "jeonse", 0, "addr_a", "apt">>,
     <<50000, "monthly", 30, "addr_a", "apt">>,
     <<50000, "jeonse", 0, "addr_b", "villa">>}
Thresholds == {24, 48}

\* dataclass ListingUpsert
ListingUpsertOf(k, v) ==
    [source |-> k[1], source_id |-> k[2], property_type |-> v[5],
     rent_type |-> v[2], deposit |-> v[1], monthly_rent |-> v[3],
     address |-> v[4]]

ListingUpsert ==
    {ListingUpsertOf(p[1], p[2]) :
        p \in {q \in ListingKeys \X Variants :
                  q[1] = <<"zigbang", "1">> \/ (q[2][4] = "addr_a" /\ q[2][3] = 0)}}

RECURSIVE SeqsUpTo(_, _)
SeqsUpTo(S, n) ==
    IF n = 0 THEN {<<>>}
    ELSE LET shorter == SeqsUpTo(S, n - 1)
         IN shorter \cup {Append(s, x) : s \in {t \in shorter : Len(t) = n - 1}, x \in S}

Batches == SeqsUpTo(ListingUpsert, MaxBatch)

NoCall ==
    [seq |-> 0, op |-> "none", batch |-> <<>>, source |-> None,
     threshold_hours |-> 0, ret |-> 0, raised |-> FALSE,
     repeat |-> FALSE, pre_len |-> 0]

\* the store and its bookkeeping before any call
StoreBlank ==
    /\ listings = {}
    /\ price_changes = <<>>
    /\ next_id = 1
    /\ last = NoCall @@ [upserts |-> 0, reaps |-> 0, ticks |-> 0]
    /\ applied = [k \in ListingKeys |-> <<>>]

----------------------------------------------------------------------------
(* upsert_listings *)

KeyOf(r) == <<r.source, r.source_id>>

\* seen[(row.source, row.source_id)] = row ; rows = list(seen.values()):
\* a dict keeps the place of a key's first insertion and its last value
RECURSIVE DedupInto(_, _)
DedupInto(rows, acc) ==
    IF rows = <<>> THEN acc
    ELSE LET row == Head(rows)
             hit == {i \in 1..Len(acc) : KeyOf(acc[i]) = KeyOf(row)}
         IN IF hit = {}
            THEN DedupInto(Tail(rows), Append(acc, row))
            ELSE DedupInto(Tail(rows), [acc EXCEPT ![CHOOSE i \in hit : TRUE] = row])

\* the variant that keeps a key's first value
RECURSIVE DedupKeepFirstInto(_, _)
DedupKeepFirstInto(rows, acc) ==
    IF rows = <<>> THEN acc
    ELSE LET row == Head(rows)
             hit == {i \in 1..Len(acc) : KeyOf(acc[i]) = KeyOf(row)}
         IN IF hit = {}
            THEN DedupKeepFirstInto(Tail(rows), Append(acc, row))
            ELSE DedupKeepFirstInto(Tail(rows), acc)

DedupKeepFirst(rows) == DedupKeepFirstInto(rows, <<>>)

DedupNone(rows) == rows

DedupRows(rows) == DedupInto(rows, <<>>)

\* dataclass PriceChangeUpsert as stored by upsert_price_changes
PriceChangeRow(listing_id, old_deposit, old_monthly_rent, row, t) ==
    [listing_id |-> listing_id,
     old_deposit |-> old_deposit, old_monthly_rent |-> old_monthly_rent,
     new_deposit |-> row.deposit, new_monthly_rent |-> row.monthly_rent,
     changed_at |-> t]

\* old_deposit != row.deposit or old_monthly_rent != row.monthly_rent
PriceDiffersDepositOnly(old, row) == old.deposit # row.deposit

\* a comparison that takes every update for a price change
PriceDiffersAlways(old, row) == TRUE

PriceDiffers(old, row) ==
    old.deposit # row.deposit \/ old.monthly_rent # row.monthly_rent

\* a Listing row as INSERTed: is_active, first_seen_at, last_seen_at,
\* created_at and updated_at are now on both paths
NewListing(id, row, t) ==
    [id |-> id, source |-> row.source, source_id |-> row.source_id,
     property_type |-> row.property_type, rent_type |-> row.rent_type,
     deposit |-> row.deposit, monthly_rent |-> row.monthly_rent,
     address |-> row.address, is_active |-> TRUE,
     first_seen_at |-> t, last_seen_at |-> t,
     created_at |-> t, updated_at |-> t]

\* update(Listing).where(Listing.id == listing_id).values(...): the
\* column updated_at has onupdate=func.now(), which a Core UPDATE applies
UpdateListing(old, row, t) ==
    [old EXCEPT !.deposit = row.deposit, !.monthly_rent = row.monthly_rent,
                !.address = row.address,
                !.last_seen_at = t, !.is_active = TRUE, !.updated_at = t]

\* the variant that leaves is_active as it is
ConflictUpdateSeen(old, row, t) ==
    [old EXCEPT !.deposit = row.deposit, !.monthly_rent = row.monthly_rent,
                !.address = row.address, !.last_seen_at = t]

\* the variant that copies every incoming column
ConflictUpdateTypes(old, row, t) ==
    [old EXCEPT !.deposit = row.deposit, !.monthly_rent = row.monthly_rent,
                !.address = row.address,
                !.property_type = row.property_type, !.rent_type = row.rent_type,
                !.last_seen_at = t, !.is_active = TRUE]

\* on_conflict_do_update(set_={...}): onupdate is not applied to the
\* DO UPDATE branch of an INSERT, so updated_at stays
ConflictUpdate(old, row, t) ==
    [old EXCEPT !.deposit = row.deposit, !.monthly_rent = row.monthly_rent,
                !.address = row.address,
                !.last_seen_at = t, !.is_active = TRUE]

Existing(ls, key) == {l \in ls : KeyOf(l) = key}

\* a payload whose fields can be read through __dict__
HasDictAlways(row) == TRUE

\* row.__dict__ of a payload object: RealTradeUpsert, ListingUpsert and
\* PriceChangeUpsert are dataclass(slots=True), whose instances have no
\* __dict__, so the expression raises AttributeError
HasDict(row) == FALSE

\* the state one call works on
CallState(ls, pcs, nid) ==
    [listings |-> ls, price_changes |-> pcs, next_id |-> nid, count |-> 0,
     raised |-> FALSE]

\* the portable path, one row: existence check, then insert or update;
\* a changed price goes through upsert_price_changes, whose portable path
\* builds PriceChange(**row.__dict__)
FallbackRow(st, row, t) ==
    LET ex == Existing(st.listings, KeyOf(row))
    IN IF ex = {}
       THEN [st EXCEPT !.listings = @ \cup {NewListing(st.next_id, row, t)},
                       !.next_id = @ + 1,
                       !.count = @ + 1]
       ELSE LET old == CHOOSE l \in ex : TRUE
                change == PriceChangeRow(old.id, old.deposit,
                                         old.monthly_rent, row, t)
            IN IF PriceDiffers(old, row) /\ ~HasDict(change)
               THEN [st EXCEPT !.raised = TRUE]
               ELSE [st EXCEPT
                       !.price_changes =
                           IF PriceDiffers(old, row) THEN Append(@, change) ELSE @,
                       !.listings = (@ \ {old}) \cup {UpdateListing(old, row, t)},
                       !.count = @ + 1]

RECURSIVE FallbackRows(_, _, _)
FallbackRows(st, rows, t) ==
    IF rows = <<>> \/ st.raised THEN st
    ELSE FallbackRows(FallbackRow(st, Head(rows), t), Tail(rows), t)

\* INSERT ... ON CONFLICT DO UPDATE, one proposed row; the id sequence is
\* advanced for every proposed row, also for one that ends as an update
PostgresRow(st, row, t) ==
    LET ex == Existing(st.listings, KeyOf(row))
    IN IF ex = {}
       THEN [st EXCEPT !.listings = @ \cup {NewListing(st.next_id, row, t)},
                       !.next_id = @ + 1,
                       !.count = @ + 1]
       ELSE LET old == CHOOSE l \in ex : TRUE
            IN [st EXCEPT
                  !.listings = (@ \ {old}) \cup {ConflictUpdate(old, row, t)},
                  !.next_id = @ + 1,
                  !.count = @ + 1]

RECURSIVE PostgresRows(_, _, _)
PostgresRows(st, rows, t) ==
    IF rows = <<>> THEN st
    ELSE PostgresRows(PostgresRow(st, Head(rows), t), Tail(rows), t)

\* the price_changes list built from existing_map (read before the INSERT)
RECURSIVE PostgresPriceChanges(_, _, _)
PostgresPriceChanges(before, rows, t) ==
    IF rows = <<>> THEN <<>>
    ELSE LET row == Head(rows)
             ex == Existing(before, KeyOf(row))
             rest == PostgresPriceChanges(before, Tail(rows), t)
         IN IF ex # {} /\ PriceDiffers(CHOOSE l \in ex : TRUE, row)
            THEN LET old == CHOOSE l \in ex : TRUE
                 IN <<PriceChangeRow(old.id, old.deposit, old.monthly_rent, row, t)>>
                    \o rest
            ELSE rest

DistinctKeys(rows) ==
    \A i, j \in 1..Len(rows) : KeyOf(rows[i]) = KeyOf(rows[j]) => i = j

\* upsert_listings(session, rows): the state after the call, with the
\* return value in .count and the outcome in .raised
UpsertResult(dia, ls, pcs, nid, batch, t) ==
    LET st0 == CallState(ls, pcs, nid)
        rows == DedupRows(batch)
    IN IF batch = <<>> THEN st0
       ELSE IF dia = "postgresql"
       THEN IF ~DistinctKeys(rows)
            \* "ON CONFLICT DO UPDATE command cannot affect row a second
            \* time": the statement fails and nothing is committed
            THEN [st0 EXCEPT !.raised = TRUE]
            ELSE LET st1 == PostgresRows(st0, rows, t)
                 IN [st1 EXCEPT !.price_changes =
                         @ \o PostgresPriceChanges(ls, rows, t)]
       \* the portable path commits once, at its end: a call that raised
       \* has written nothing
       ELSE LET st1 == FallbackRows(st0, rows, t)
            IN IF st1.raised THEN [st0 EXCEPT !.raised = TRUE] ELSE st1

----------------------------------------------------------------------------
(* deactivate_stale_listings *)

\* .where(source == source).where(is_active == True)
\* .where(last_seen_at < threshold_time)
IsStaleNoSourceFilter(l, source, threshold_hours, t) ==
    /\ l.is_active
    /\ l.last_seen_at < t - threshold_hours * HOUR

IsStale(l, source, threshold_hours, t) ==
    /\ l.source = source
    /\ l.is_active
    /\ l.last_seen_at < t - threshold_hours * HOUR

\* .values(is_active=False), with updated_at refreshed by onupdate
Deactivated(l, t) == [l EXCEPT !.is_active = FALSE, !.updated_at = t]

StaleRows(ls, source, threshold_hours, t) ==
    {l \in ls : IsStale(l, source, threshold_hours, t)}

DeactivateResult(ls, source, threshold_hours, t) ==
    LET stale == StaleRows(ls, source, threshold_hours, t)
    IN [listings |-> (ls \ stale) \cup {Deactivated(l, t) : l \in stale},
        count |-> Cardinality(stale)]

----------------------------------------------------------------------------
(* The dedup lock *)

\* build_dedup_key: f"dedup:{scope}:{task_name}:{fingerprint}"
build_dedup_key(scope, task_name, fingerprint) ==
    <<"dedup", ":", scope, ":", task_name, ":">> \o fingerprint

\* the entries of a lock store that have not expired at time t
Unexpired(store, t) ==
    [k \in {j \in DOMAIN store : store[j] > t} |-> store[k]]

Put(store, key, expiry) ==
    [k \in DOMAIN store \cup {key} |-> IF k = key THEN expiry ELSE store[k]]

Drop(store, key) == [k \in DOMAIN store \ {key} |-> store[k]]

\* an acquire that never forgets an expired entry
AcquireNoExpiry(store, key, ttl_seconds, t) ==
    IF key \in DOMAIN store
    THEN [ok |-> FALSE, locks |-> store]
    ELSE [ok |-> TRUE, locks |-> Put(store, key, t + ttl_seconds)]

\* _acquire_memory_lock: drop the expired entries, then set if absent
_acquire_memory_lock(store, key, ttl_seconds, t) ==
    LET live == Unexpired(store, t)
    IN IF key \in DOMAIN live
       THEN [ok |-> FALSE, locks |-> live]
       ELSE [ok |-> TRUE, locks |-> Put(live, key, t + ttl_seconds)]

\* client.set(key, "1", nx=True, ex=ttl_seconds): Redis holds a key until
\* its expiry and sets it only if it is not there
RedisSetNxEx(store, key, ttl_seconds, t) ==
    IF key \in DOMAIN store /\ store[key] > t
    THEN [ok |-> FALSE, locks |-> store]
    ELSE [ok |-> TRUE, locks |-> Put(store, key, t + ttl_seconds)]

AcquireResult(testing, store, key, ttl_seconds, t) ==
    IF testing THEN _acquire_memory_lock(store, key, ttl_seconds, t)
    ELSE RedisSetNxEx(store, key, ttl_seconds, t)

\* release_dedup_lock: _MEMORY_LOCKS.pop(key, None) / client.delete(key)
ReleaseResult(testing, store, key) == Drop(store, key)

NoLocks ==
    /\ locks = [k \in {} |-> 0]
    /\ taskiq_testing = FALSE
    /\ held = [k \in {} |-> <<>>]
    /\ lastLock = [seq |-> 0, op |-> "none", key |-> <<>>, ttl_seconds |-> 0,
                   ok |-> FALSE, ticks |-> 0]

NoEnqueues ==
    /\ enqueued = <<>>
    /\ broker_queue = <<>>

Workers == {"w1", "w2"}

IdleWorker ==
    [pc |-> "idle", task |-> "", key |-> <<>>, acquired_at |-> 0,
     result |-> <<>>, inserted |-> 0, deactivated |-> 0, error |-> "",
     ret |-> [status |-> "none"], calls |-> {}, busy |-> FALSE,
     contended |-> FALSE, released |-> FALSE, delivery |-> ""]

\* no crawler run is modelled
NoRun == [pc |-> "none"]

\* nor any of the parts added after the crawler
NoRace == [pc |-> "none"]
NoRequest == [pc |-> "none"]
NoNaver == [pc |-> "none"]
NoTradeCall == [seq |-> 0]
NoSearch == [calls |-> 0]
NoPages == [pc |-> "none"]
NoSleeps == [pc |-> "none"]

NoLater ==
    /\ race = NoRace
    /\ request = NoRequest
    /\ naver = NoNaver
    /\ tradeLog = NoTradeCall
    /\ search = NoSearch
    /\ favorites = {}
    /\ pages = NoPages
    /\ sleeps = NoSleeps

NoTasks ==
    /\ workers = [w \in Workers |-> IdleWorker]
    /\ notifications = 0
    /\ real_trades = <<>>
    /\ taskLog = [runs |-> 0, ticks |-> 0, overrun |-> FALSE]
    /\ run = NoRun
    /\ NoLater

\* the bookkeeping of a lock call
HeldAfterAcquire(key, ttl_seconds, ok) ==
    IF ok THEN [k \in DOMAIN held \cup {key} |->
                  IF k = key THEN <<[at |-> now, ttl |-> ttl_seconds]>> ELSE held[k]]
    ELSE held

HeldAfterRelease(key) ==
    [k \in DOMAIN held |-> IF k = key THEN <<>> ELSE held[k]]

LockLogged(op, key, ttl_seconds, ok) ==
    [lastLock EXCEPT !.seq = @ + 1, !.op = op, !.key = key,
                     !.ttl_seconds = ttl_seconds, !.ok = ok]

----------------------------------------------------------------------------
(* The lock on its own: any sequence of acquire, release and clock advance *)

MaxLockCalls == 4   \* acquire and release calls in one behaviour
MaxLockTicks == 3   \* clock advances in one behaviour

LockKeys ==
    {build_dedup_key("execution", "crawl_naver_listings", <<"default">>),
     build_dedup_key("enqueue", "crawl_naver_listings", <<"manual">>)}
LockTtls == {HOUR, 2 * HOUR}
LockClockStep == HOUR \div 2

LockInit ==
    /\ StoreBlank
    /\ dialect = "postgresql"
    /\ now = 0
    /\ locks = [k \in {} |-> 0]
    /\ taskiq_testing \in BOOLEAN
    /\ held = [k \in LockKeys |-> <<>>]
    /\ lastLock = [seq |-> 0, op |-> "none", key |-> <<>>, ttl_seconds |-> 0,
                   ok |-> FALSE, ticks |-> 0]
    /\ NoEnqueues
    /\ NoTasks

acquire_dedup_lock(key, ttl_seconds) ==
    /\ lastLock.seq < MaxLockCalls
    /\ LET res == AcquireResult(taskiq_testing, locks, key, ttl_seconds, now)
       IN /\ locks' = res.locks
          /\ held' = HeldAfterAcquire(key, ttl_seconds, res.ok)
          /\ lastLock' = LockLogged("acquire", key, ttl_seconds, res.ok)
    /\ UNCHANGED <<taskiq_testing, now, notLock>>

release_dedup_lock(key) ==
    /\ lastLock.seq < MaxLockCalls
    /\ locks' = ReleaseResult(taskiq_testing, locks, key)
    /\ held' = HeldAfterRelease(key)
    /\ lastLock' = LockLogged("release", key, 0, TRUE)
    /\ UNCHANGED <<taskiq_testing, now, notLock>>

LockTick ==
    /\ lastLock.ticks < MaxLockTicks
    /\ now' = now + LockClockStep
    /\ lastLock' = [lastLock EXCEPT !.ticks = @ + 1]
    /\ UNCHANGED <<locks, taskiq_testing, held, notLock>>

LockNext ==
    \/ \E key \in LockKeys, ttl \in LockTtls : acquire_dedup_lock(key, ttl)
    \/ \E key \in LockKeys : release_dedup_lock(key)
    \/ LockTick

SpecLock == LockInit /\ [][LockNext]_vars

\* C8: acquire_dedup_lock(key, ttl) returns true if and only if no lock on
\* the key exists that was acquired less than its ttl seconds ago and not
\* released since; hence after a successful acquire every further acquire
\* of the key returns false until release or expiry, and the next one then
\* returns true.  A call on one key leaves every other key as it was:
\* locked if and only if it was locked before.
C8_InForce(key) ==
    /\ held[key] # <<>>
    /\ now - held[key][1].at < held[key][1].ttl

C8_Locked(store, key, t) == key \in DOMAIN store /\ store[key] > t

C8_Step ==
    /\ (lastLock'.seq = lastLock.seq + 1 /\ lastLock'.op = "acquire") =>
          (lastLock'.ok <=> ~C8_InForce(lastLock'.key))
    /\ lastLock'.seq = lastLock.seq + 1 =>
          \A other \in LockKeys \ {lastLock'.key} :
             C8_Locked(locks', other, now) <=> C8_Locked(locks, other, now)

C8_MutualExclusion == [][C8_Step]_vars

\* an acquire that succeeded although the key had been acquired before and
\* never released (the earlier lock had expired), while the other key is
\* still locked
C8_Witness ==
    /\ lastLock.op = "acquire"
    /\ lastLock.ok
    /\ lastLock.seq >= 3
    /\ now >= HOUR
    /\ held[lastLock.key][1].at = now
    /\ \E other \in LockKeys \ {lastLock.key} :
          C8_Locked(locks, other, now)

----------------------------------------------------------------------------
(* enqueue_crawl_real_trade *)

\* settings.crawl_dedup_ttl_seconds
crawl_dedup_ttl_seconds == 3600

\* Python's order of the tokens that get sorted
TokenOrder == <<"11110", "11140", "apt", "villa">>
Rank(token) == CHOOSE i \in 1..Len(TokenOrder) : TokenOrder[i] = token

RECURSIVE InsertSorted(_, _)
InsertSorted(sorted, x) ==
    IF sorted = <<>> THEN <<x>>
    ELSE IF Rank(x) < Rank(Head(sorted)) THEN <<x>> \o sorted
    ELSE <<Head(sorted)>> \o InsertSorted(Tail(sorted), x)

RECURSIVE Sorted(_)
Sorted(list) ==
    IF list = <<>> THEN <<>>
    ELSE InsertSorted(Sorted(SubSeq(list, 1, Len(list) - 1)), list[Len(list)])

\* sep.join(parts), for parts that are token sequences
RECURSIVE Join(_, _)
Join(parts, sep) ==
    IF parts = <<>> THEN <<>>
    ELSE IF Len(parts) = 1 THEN parts[1]
    ELSE parts[1] \o <<sep>> \o Join(Tail(parts), sep)

Tokens(list) == [i \in 1..Len(list) |-> <<list[i]>>]

UnsortedCsv(list) == IF list = <<>> THEN <<>> ELSE Join(Tokens(list), ",")

\* ",".join(sorted(codes)) if codes else ""   (None is <<>>)
SortedCsv(list) == IF list = <<>> THEN <<>> ELSE Join(Tokens(Sorted(list)), ",")

\* _build_crawl_fingerprint; start_year_month or "" (None is <<>>)
_build_crawl_fingerprint(region_codes, property_types, start_year_month, end_year_month) ==
    Join(<<SortedCsv(region_codes), SortedCsv(property_types),
           start_year_month, end_year_month>>, ":")

\* the dedup key of an enqueue request
EnqueueKey(req) ==
    LET param_fingerprint ==
            _build_crawl_fingerprint(req.region_codes, req.property_types,
                                     req.start_year_month, req.end_year_month)
        combined_fingerprint ==
            IF param_fingerprint # <<>>
            THEN <<req.fingerprint>> \o <<":">> \o param_fingerprint
            ELSE <<req.fingerprint>>
    IN build_dedup_key("enqueue", "crawl_real_trade", combined_fingerprint)

MaxEnqueues == 2       \* enqueue requests in one behaviour
MaxEnqueueTicks == 2   \* clock advances in one behaviour

EnqueueClockStep == crawl_dedup_ttl_seconds \div 2

\* the requests: None and [] are both <<>>
RegionCodeLists ==
    {<<>>, <<"11110">>, <<"11110", "11140">>, <<"11140", "11110">>,
     <<"11110", "11110">>}
PropertyTypeLists == {<<>>, <<"apt", "villa">>, <<"villa", "apt">>}
Months == {<<<<>>, <<>>>>, <<<<"202501">>, <<"202503">>>>, <<<<"202501">>, <<>>>>}

EnqueueRequests ==
    {[fingerprint |-> f, region_codes |-> rc, property_types |-> pt,
      start_year_month |-> m[1], end_year_month |-> m[2]] :
        f \in {"manual", "force"}, rc \in RegionCodeLists,
        pt \in PropertyTypeLists, m \in Months}

EnqueueInit ==
    /\ StoreBlank
    /\ dialect = "postgresql"
    /\ now = 0
    /\ locks = [k \in {} |-> 0]
    /\ taskiq_testing \in BOOLEAN
    /\ held = [k \in {} |-> <<>>]
    /\ lastLock = [seq |-> 0, op |-> "none", key |-> <<>>, ttl_seconds |-> 0,
                   ok |-> FALSE, ticks |-> 0]
    /\ NoEnqueues
    /\ NoTasks

\* enqueue_crawl_real_trade(...); kiq_ok: task_kicker.kiq() returned
enqueue_crawl_real_trade(req, kiq_ok) ==
    /\ Len(enqueued) < MaxEnqueues
    /\ LET key == EnqueueKey(req)
           res == AcquireResult(taskiq_testing, locks, key,
                                crawl_dedup_ttl_seconds, now)
           result == IF ~res.ok THEN "duplicate_enqueue"
                     ELSE IF kiq_ok THEN "enqueued" ELSE "raised"
       IN /\ locks' = res.locks
          /\ held' = HeldAfterAcquire(key, crawl_dedup_ttl_seconds, res.ok)
          /\ lastLock' = LockLogged("acquire", key, crawl_dedup_ttl_seconds, res.ok)
          /\ broker_queue' =
                IF result = "enqueued"
                THEN Append(broker_queue,
                            [task_name |-> "crawl_real_trade", args |-> req])
                ELSE broker_queue
          /\ enqueued' = Append(enqueued,
                [req |-> req, at |-> now, result |-> result,
                 submitted |-> Len(broker_queue') - Len(broker_queue)])
    /\ UNCHANGED <<taskiq_testing, now, storeVars, storeGhost, taskVars,
                   crawlVars, laterVars>>

EnqueueTick ==
    /\ lastLock.ticks < MaxEnqueueTicks
    /\ now' = now + EnqueueClockStep
    /\ lastLock' = [lastLock EXCEPT !.ticks = @ + 1]
    /\ UNCHANGED <<locks, taskiq_testing, held, enqueueVars, storeVars,
                   storeGhost, taskVars, crawlVars, laterVars>>

EnqueueNext ==
    \/ \E req \in EnqueueRequests, kiq_ok \in BOOLEAN :
          enqueue_crawl_real_trade(req, kiq_ok)
    \/ EnqueueTick

SpecEnqueue == EnqueueInit /\ [][EnqueueNext]_vars

Elements(list) == {list[i] : i \in 1..Len(list)}

\* how often each code occurs in a list
Multiplicity(list, x) == Cardinality({i \in 1..Len(list) : list[i] = x})

\* the combination of a request as the claim words it: label, set of
\* region codes, set of property types, start month, end month
C9_SameAsSets(r1, r2) ==
    /\ r1.fingerprint = r2.fingerprint
    /\ Elements(r1.region_codes) = Elements(r2.region_codes)
    /\ Elements(r1.property_types) = Elements(r2.property_types)
    /\ r1.start_year_month = r2.start_year_month
    /\ r1.end_year_month = r2.end_year_month

\* the same, with the lists compared as lists without order: a code
\* listed twice is not the code listed once
C9_SameAsBags(r1, r2) ==
    /\ r1.fingerprint = r2.fingerprint
    /\ \A x \in Elements(r1.region_codes) \cup Elements(r2.region_codes) :
          Multiplicity(r1.region_codes, x) = Multiplicity(r2.region_codes, x)
    /\ \A x \in Elements(r1.property_types) \cup Elements(r2.property_types) :
          Multiplicity(r1.property_types, x) = Multiplicity(r2.property_types, x)
    /\ r1.start_year_month = r2.start_year_month
    /\ r1.end_year_month = r2.end_year_month

\* request j came while the window opened by request i was running
C9_InWindowOf(i, j) ==
    /\ i < j
    /\ enqueued[i].result # "duplicate_enqueue"
    /\ enqueued[j].at - enqueued[i].at < crawl_dedup_ttl_seconds

\* C9 as stated: with the combination taken as sets
C9_DedupBySets ==
    \A j \in 1..Len(enqueued) :
       LET blockers == {i \in 1..Len(enqueued) :
                           C9_InWindowOf(i, j)
                           /\ C9_SameAsSets(enqueued[i].req, enqueued[j].req)}
       IN /\ blockers # {} =>
                enqueued[j].result = "duplicate_enqueue" /\ enqueued[j].submitted = 0
          /\ enqueued[j].result = "duplicate_enqueue" => blockers # {}
          /\ enqueued[j].submitted <= 1

\* C9 amended: within one dedup window a task is submitted only for the
\* first request of each combination of label, region codes, property
\* types, start month and end month, where the two lists are compared
\* without regard to order but with regard to repeats; every later request
\* of the combination returns duplicate_enqueue and submits nothing, and a
\* request is refused only for an earlier request of its own combination.
C9_DedupByFingerprint ==
    \A j \in 1..Len(enqueued) :
       LET blockers == {i \in 1..Len(enqueued) :
                           C9_InWindowOf(i, j)
                           /\ C9_SameAsBags(enqueued[i].req, enqueued[j].req)}
       IN /\ blockers # {} =>
                enqueued[j].result = "duplicate_enqueue" /\ enqueued[j].submitted = 0
          /\ enqueued[j].result = "duplicate_enqueue" => blockers # {}
          /\ enqueued[j].submitted <= 1
          /\ (blockers = {} /\ enqueued[j].result # "raised") =>
                enqueued[j].submitted = 1

\* a request refused although it lists its region codes and property types
\* in another order than the request that was submitted
C9_Witness ==
    /\ Len(enqueued) = 2
    /\ enqueued[1].result = "enqueued"
    /\ enqueued[2].result = "duplicate_enqueue"
    /\ enqueued[1].req.region_codes # enqueued[2].req.region_codes
    /\ enqueued[1].req.property_types # enqueued[2].req.property_types
    /\ enqueued[2].at > enqueued[1].at
    /\ Len(broker_queue) = 1

\* C35: when the submission to the broker fails, the enqueue key taken
\* for the request does not stay held: a request is answered
\* duplicate_enqueue only if a request of its key has submitted a task
\* within the window.
C35_FailedSubmitFreesKey ==
    \A j \in 1..Len(enqueued) :
       enqueued[j].result = "duplicate_enqueue" =>
          \E i \in 1..(j - 1) :
             /\ EnqueueKey(enqueued[i].req) = EnqueueKey(enqueued[j].req)
             /\ enqueued[j].at - enqueued[i].at < crawl_dedup_ttl_seconds
             /\ enqueued[i].submitted = 1

----------------------------------------------------------------------------
(* upsert_real_trades *)

\* dataclass RealTradeUpsert; area_m2 is <<>> for None
RealTradeUpsertOf(area_m2, trade_category) ==
    [property_type |-> "apt", rent_type |-> "jeonse", region_code |-> "11110",
     dong |-> "dong_a", apt_name |-> "apt_a", deposit |-> 50000,
     monthly_rent |-> 0, area_m2 |-> area_m2, floor |-> 3,
     contract_year |-> 2025, contract_month |-> 1, contract_day |-> 15,
     trade_category |-> trade_category]

\* the columns of uq_real_trades_identity
ConstraintIdentity(r) ==
    <<r.property_type, r.region_code, r.dong, r.apt_name, r.area_m2, r.floor,
      r.contract_year, r.contract_month, r.contract_day, r.rent_type,
      r.trade_category>>

\* the columns of the portable path's existence check
ExistsIdentity(r) ==
    <<r.property_type, r.region_code, r.dong, r.apt_name, r.area_m2, r.floor,
      r.contract_year, r.contract_month, r.contract_day, r.rent_type>>

\* a unique constraint never matches a row with a NULL in one of its columns
ConflictsWith(table, row) ==
    /\ row.area_m2 # <<>>
    /\ \E i \in 1..Len(table) : ConstraintIdentity(table[i]) = ConstraintIdentity(row)

\* column == None is rendered IS NULL, so a NULL area matches a NULL area
ExistsIn(table, row) ==
    \E i \in 1..Len(table) : ExistsIdentity(table[i]) = ExistsIdentity(row)

\* row by row: ON CONFLICT DO NOTHING on PostgreSQL; on the portable path
\* the existence check and session.add(RealTrade(**row.__dict__))
RECURSIVE TradeRowsInto(_, _, _)
TradeRowsInto(dia, st, rows) ==
    IF rows = <<>> \/ st.raised THEN st
    ELSE LET row == Head(rows)
             skip == IF dia = "postgresql" THEN ConflictsWith(st.real_trades, row)
                     ELSE ExistsIn(st.real_trades, row)
         IN TradeRowsInto(dia,
                IF skip THEN st
                ELSE IF dia # "postgresql" /\ ~HasDict(row)
                THEN [st EXCEPT !.raised = TRUE]
                ELSE [st EXCEPT !.real_trades = Append(@, row), !.count = @ + 1],
                Tail(rows))

\* upsert_real_trades: the table after the call, the value returned and
\* whether the call raised; the one commit is at the end of the call
UpsertTradesResult(dia, table, rows) ==
    LET st0 == [real_trades |-> table, count |-> 0, raised |-> FALSE]
        st1 == TradeRowsInto(dia, st0, rows)
    IN IF st1.raised THEN [st0 EXCEPT !.raised = TRUE] ELSE st1

----------------------------------------------------------------------------
(* The scheduled tasks *)

MaxRuns == 2        \* task invocations in one behaviour
MaxTaskTicks == 2   \* clock advances in one behaviour

TaskClockStep == crawl_dedup_ttl_seconds \div 2

\* the store when the workers start: one zigbang listing last seen three
\* days ago
TaskEpoch == 72 * HOUR
SeenBefore ==
    NewListing(1, ListingUpsertOf(<<"zigbang", "1">>,
                                  <<50000, "jeonse", 0, "addr_a", "apt">>), 0)

ListingTasks == {"crawl_naver_listings", "crawl_zigbang_listings"}
TaskNames == ListingTasks \cup {"crawl_real_trade"}

TaskSource(task) ==
    CASE task = "crawl_naver_listings" -> "naver"
      [] task = "crawl_zigbang_listings" -> "zigbang"
      [] task = "crawl_real_trade" -> "public_api"

\* the arguments of an invocation: region_codes of crawl_real_trade (the
\* other arguments None); the listing tasks take none
TaskArgs(task) ==
    IF task = "crawl_real_trade" THEN {<<>>, <<"11110">>} ELSE {<<>>}

\* the execution dedup key of an invocation
ExecutionKey(task, region_codes) ==
    IF task = "crawl_real_trade"
    THEN LET fingerprint == _build_crawl_fingerprint(region_codes, <<>>, <<>>, <<>>)
         IN build_dedup_key("execution", task,
                            IF fingerprint # <<>> THEN fingerprint ELSE <<"default">>)
    ELSE build_dedup_key("execution", task, <<"default">>)

\* what crawler.run() can come back with: rows, or an exception
CrawlOutcomes(task) ==
    LET found(rows) == [error |-> "", rows |-> rows]
        raised(e) == [error |-> e, rows |-> <<>>]
        src == TaskSource(task)
    IN CASE task = "crawl_zigbang_listings" ->
              {found(<<>>),
               found(<<ListingUpsertOf(<<src, "1">>, <<48000, "jeonse", 0, "addr_a", "apt">>)>>),
               found(<<ListingUpsertOf(<<src, "2">>, <<50000, "jeonse", 0, "addr_a", "apt">>)>>),
               raised("ZigbangSchemaMismatchError")}
         [] task = "crawl_naver_listings" ->
              {found(<<>>),
               found(<<ListingUpsertOf(<<src, "1">>, <<50000, "jeonse", 0, "addr_a", "apt">>)>>)}
         [] task = "crawl_real_trade" ->
              {found(<<>>),
               found(<<RealTradeUpsertOf(<<84>>, "rent")>>),
               found(<<RealTradeUpsertOf(<<84>>, "rent"), RealTradeUpsertOf(<<84>>, "sale")>>),
               raised("Exception")}
         [] OTHER -> {}

BodyPcs == {"crawl", "persist", "reap", "notify", "finally"}

InBody(w) == workers[w].pc \in BodyPcs

\* the variant that runs the body whether or not the lock was acquired
NeverSkips(lock_acquired) == FALSE

\* if not lock_acquired: return {..., "status": "skipped_duplicate_execution"}
Skips(lock_acquired) == ~lock_acquired

\* the variant that goes from the crawl to the reaper
AfterCrawlToReap(outcome) == IF outcome.error # "" THEN "finally" ELSE "reap"

\* the variant that goes on to persist after a failed crawl
AfterCrawlSwallow(outcome) == "persist"

\* result = await crawler.run(): an exception leaves the try block
AfterCrawl(outcome) == IF outcome.error # "" THEN "finally" ELSE "persist"

\* the listing tasks reap after persisting; crawl_real_trade does not
AfterPersist(task) == IF task \in ListingTasks THEN "reap" ELSE "notify"

\* the variant that releases only after a run without exception
ReleaseOnReturn(error) == error = ""

\* finally: await release_dedup_lock(dedup_key)
ReleaseOnExit(error) == TRUE

SkippedReturn(task) ==
    [source |-> TaskSource(task), count |-> 0,
     status |-> "skipped_duplicate_execution"]

OkReturn(wk) ==
    IF wk.task \in ListingTasks
    THEN [source |-> TaskSource(wk.task), count |-> wk.inserted,
          fetched |-> Len(wk.result), deactivated |-> wk.deactivated,
          status |-> "ok"]
    ELSE [source |-> TaskSource(wk.task), count |-> wk.inserted,
          fetched |-> Len(wk.result), status |-> "ok"]

TaskInit ==
    /\ listings = {SeenBefore}
    /\ price_changes = <<>>
    /\ next_id = 2
    /\ last = NoCall @@ [upserts |-> 0, reaps |-> 0, ticks |-> 0]
    /\ applied = [k \in ListingKeys |-> <<>>]
    /\ dialect \in {"postgresql", "sqlite"}
    /\ now = TaskEpoch
    /\ locks = [k \in {} |-> 0]
    /\ taskiq_testing \in BOOLEAN
    /\ held = [k \in {} |-> <<>>]
    /\ lastLock = [seq |-> 0, op |-> "none", key |-> <<>>, ttl_seconds |-> 0,
                   ok |-> FALSE, ticks |-> 0]
    /\ NoEnqueues
    /\ NoTasks

taskFrame == <<dialect, taskiq_testing, last, applied, held, lastLock,
               enqueueVars, crawlVars, raceVars, requestVars, naverVars, tradeGhost, searchVars, favoriteVars, pageVars, sleepVars>>

\* a worker picks the task up: acquire the lock, return at once if refused
Start(w, task, region_codes) ==
    /\ workers[w].pc \in {"idle", "done"}
    /\ taskLog.runs < MaxRuns
    /\ LET key == ExecutionKey(task, region_codes)
           res == AcquireResult(taskiq_testing, locks, key,
                                crawl_dedup_ttl_seconds, now)
           others == {v \in Workers \ {w} : InBody(v) /\ workers[v].key = key}
           fresh == [IdleWorker EXCEPT
                        !.task = task, !.key = key,
                        !.busy = others # {},
                        !.contended =
                            \E v \in others :
                               now < workers[v].acquired_at + crawl_dedup_ttl_seconds]
       IN /\ locks' = res.locks
          /\ workers' =
                [workers EXCEPT ![w] =
                    IF Skips(res.ok)
                    THEN [fresh EXCEPT !.pc = "done", !.ret = SkippedReturn(task)]
                    ELSE [fresh EXCEPT !.pc = "crawl", !.acquired_at = now]]
    /\ taskLog' = [taskLog EXCEPT !.runs = @ + 1]
    /\ UNCHANGED <<storeVars, now, notifications, real_trades, taskFrame>>

\* result = await crawler.run()
Crawl(w, outcome) ==
    /\ workers[w].pc = "crawl"
    /\ outcome \in CrawlOutcomes(workers[w].task)
    /\ workers' = [workers EXCEPT ![w] =
                      [@ EXCEPT !.pc = AfterCrawl(outcome),
                                !.error = outcome.error,
                                !.result = outcome.rows,
                                !.calls = @ \cup {"crawl"}]]
    /\ UNCHANGED <<storeVars, now, locks, notifications, real_trades, taskLog,
                   taskFrame>>

\* inserted = await _persist_listings(result.rows) / _persist_real_trades;
\* fails: the call raised before it wrote
Persist(w, fails) ==
    /\ workers[w].pc = "persist"
    /\ LET wk == workers[w]
           lres == UpsertResult(dialect, listings, price_changes, next_id,
                                wk.result, now)
           tres == UpsertTradesResult(dialect, real_trades, wk.result)
           listing == wk.task \in ListingTasks
           error == fails \/ (listing /\ lres.raised) \/ (~listing /\ tres.raised)
       IN /\ IF listing /\ ~error
             THEN /\ listings' = lres.listings
                  /\ price_changes' = lres.price_changes
                  /\ next_id' = lres.next_id
             ELSE UNCHANGED <<listings, price_changes, next_id>>
          /\ real_trades' = IF ~listing /\ ~error THEN tres.real_trades
                            ELSE real_trades
          /\ workers' = [workers EXCEPT ![w] =
                [@ EXCEPT !.pc = IF error THEN "finally" ELSE AfterPersist(wk.task),
                          !.error = IF error THEN "Exception" ELSE "",
                          !.inserted = IF error THEN 0
                                       ELSE IF listing THEN lres.count
                                       ELSE tres.count,
                          !.calls = @ \cup {"persist"}]]
    /\ UNCHANGED <<now, locks, notifications, taskLog, taskFrame>>

\* deactivated = await deactivate_stale_listings(session, source, 48)
Reap(w, fails) ==
    /\ workers[w].pc = "reap"
    /\ LET wk == workers[w]
           res == DeactivateResult(listings, TaskSource(wk.task), 48, now)
       IN /\ listings' = IF fails THEN listings ELSE res.listings
          /\ workers' = [workers EXCEPT ![w] =
                [@ EXCEPT !.pc = IF fails THEN "finally" ELSE "notify",
                          !.error = IF fails THEN "Exception" ELSE "",
                          !.deactivated = IF fails THEN 0 ELSE res.count,
                          !.calls = @ \cup {"reap"}]]
    /\ UNCHANGED <<price_changes, next_id, now, locks, notifications,
                   real_trades, taskLog, taskFrame>>

\* how a delivery to Telegram can go: token or chat id not configured, the
\* message accepted, the API answering ok = false, an HTTP error status or
\* any other exception (connection, timeout, body that is no JSON)
Deliveries == {"unconfigured", "sent", "api_error", "Exception"}

\* a send that lets the exceptions of the delivery through
SendLetsThrough(delivery) ==
    [ret |-> delivery = "sent",
     raised |-> IF delivery = "Exception" THEN "Exception" ELSE ""]

\* TelegramNotifier.send: True when the API accepted the message, False in
\* every other case; both except clauses return False
send(delivery) == [ret |-> delivery = "sent", raised |-> ""]

\* if inserted > 0: await notifier.send(...); then the return statement
Notify(w, delivery) ==
    /\ workers[w].pc = "notify"
    /\ LET wk == workers[w]
           sends == wk.inserted > 0
           out == send(delivery)
       IN /\ notifications' =
                IF sends /\ out.ret THEN notifications + 1 ELSE notifications
          /\ workers' = [workers EXCEPT ![w] =
                [@ EXCEPT !.pc = "finally",
                          !.error = IF sends THEN out.raised ELSE "",
                          !.delivery = IF sends THEN delivery ELSE "",
                          !.calls = IF sends THEN @ \cup {"notify"} ELSE @]]
    /\ UNCHANGED <<storeVars, now, locks, real_trades, taskLog, taskFrame>>

\* the finally block, and the invocation ends
Finally(w) ==
    /\ workers[w].pc = "finally"
    /\ LET wk == workers[w]
       IN /\ locks' = IF ReleaseOnExit(wk.error)
                      THEN ReleaseResult(taskiq_testing, locks, wk.key)
                      ELSE locks
          /\ workers' = [workers EXCEPT ![w] =
                [@ EXCEPT !.pc = "done", !.result = <<>>, !.inserted = 0,
                          !.deactivated = 0,
                          !.released = wk.key \notin DOMAIN locks',
                          !.ret = IF wk.error = "" THEN OkReturn(wk)
                                  ELSE [status |-> "raised", error |-> wk.error]]]
    /\ UNCHANGED <<storeVars, now, notifications, real_trades, taskLog, taskFrame>>

TaskTick ==
    /\ taskLog.ticks < MaxTaskTicks
    /\ now' = now + TaskClockStep
    /\ taskLog' =
          [taskLog EXCEPT
              !.ticks = @ + 1,
              !.overrun = @ \/ \E w \in Workers :
                                  /\ InBody(w)
                                  /\ now' >= workers[w].acquired_at
                                              + crawl_dedup_ttl_seconds]
    /\ UNCHANGED <<storeVars, locks, workers, notifications, real_trades, taskFrame>>

TaskNext ==
    \/ \E w \in Workers, task \in TaskNames :
          \E region_codes \in TaskArgs(task) : Start(w, task, region_codes)
    \/ \E w \in Workers :
          \E outcome \in CrawlOutcomes(workers[w].task) : Crawl(w, outcome)
    \/ \E w \in Workers, fails \in BOOLEAN : Persist(w, fails)
    \/ \E w \in Workers, fails \in BOOLEAN : Reap(w, fails)
    \/ \E w \in Workers, delivery \in Deliveries : Notify(w, delivery)
    \/ \E w \in Workers : Finally(w)
    \/ TaskTick

SpecTask == TaskInit /\ [][TaskNext]_vars

\* the invocations inside the try block under one key
Running(key) == {w \in Workers : InBody(w) /\ workers[w].key = key}

TaskKeys ==
    {ExecutionKey(task, region_codes) :
        task \in TaskNames, region_codes \in {<<>>, <<"11110">>}}

\* C5: while no run has lasted longer than the lock TTL, at most one worker
\* is inside the body of a task under one execution dedup key, and an
\* invocation that found another one inside has returned count 0 with
\* status skipped_duplicate_execution without crawling, persisting, reaping
\* or notifying.
C5_OneRunner ==
    ~taskLog.overrun =>
        /\ \A key \in TaskKeys : Cardinality(Running(key)) <= 1
        /\ \A w \in Workers :
              workers[w].contended =>
                 /\ workers[w].pc = "done"
                 /\ workers[w].ret = SkippedReturn(workers[w].task)
                 /\ workers[w].ret.count = 0
                 /\ workers[w].calls = {}

\* one worker is writing while the other has been turned away
C5_Witness ==
    /\ ~taskLog.overrun
    /\ \E w \in Workers, v \in Workers :
          /\ workers[w].pc = "reap"
          /\ workers[w].inserted > 0
          /\ workers[v].contended
          /\ workers[v].key = workers[w].key
          /\ workers[v].ret.status = "skipped_duplicate_execution"

\* C6: a lock is in the store only while an invocation that acquired it is
\* still inside the try block, so every invocation that has ended, normally
\* or by an exception of the crawler, the persistence step or the reaper,
\* has released its lock; and an invocation is turned away only while
\* another one is inside the body.
C6_ReleasedOnExit ==
    /\ \A key \in DOMAIN locks : Running(key) # {}
    /\ \A w \in Workers :
          /\ (workers[w].pc = "done" /\ workers[w].ret.status \in {"ok", "raised"})
                => workers[w].released
          /\ (workers[w].pc = "done"
              /\ workers[w].ret.status = "skipped_duplicate_execution")
                => workers[w].busy

\* a run that failed, and the next run of the task inside the body before
\* the failed run's lock would have expired
C6_Witness ==
    \E w \in Workers, v \in Workers :
       /\ workers[w].pc = "done"
       /\ workers[w].ret.status = "raised"
       /\ workers[w].released
       /\ workers[v].key = workers[w].key
       /\ InBody(v)
       /\ workers[v].acquired_at > workers[w].acquired_at
       /\ workers[v].acquired_at < workers[w].acquired_at + crawl_dedup_ttl_seconds

\* C7: an invocation of crawl_zigbang_listings whose crawler raised the
\* schema-mismatch error has called neither the persistence step nor the
\* reaper nor the notifier, and when it has ended its lock has been released.
C7_MismatchWritesNothing ==
    \A w \in Workers :
       workers[w].error = "ZigbangSchemaMismatchError" =>
          /\ workers[w].task = "crawl_zigbang_listings"
          /\ workers[w].calls = {"crawl"}
          /\ workers[w].pc \in {"finally", "done"}
          /\ workers[w].pc = "done" =>
                /\ workers[w].released
                /\ workers[w].ret = [status |-> "raised",
                                     error |-> "ZigbangSchemaMismatchError"]

\* the mismatch run has ended with the store as it found it
C7_Witness ==
    /\ \E w \in Workers :
          /\ workers[w].error = "ZigbangSchemaMismatchError"
          /\ workers[w].pc = "done"
          /\ workers[w].key \notin DOMAIN locks
    /\ listings = {SeenBefore}
    /\ price_changes = <<>>
    /\ notifications = 0

\* C12: in a run of crawl_naver_listings or crawl_zigbang_listings that
\* acquired the lock, persisting starts after the crawl alone, the reaper
\* after crawl and persist, the notification after all three; and from the
\* end of the reaper to the successful return every listing the run's crawl
\* returned is stored active.
C12_StepOrder ==
    \A w \in Workers :
       LET wk == workers[w]
       IN (wk.task \in ListingTasks /\ InBody(w)) =>
             /\ wk.pc = "persist" => wk.calls = {"crawl"}
             /\ wk.pc = "reap" => wk.calls = {"crawl", "persist"}
             /\ wk.pc = "notify" => wk.calls = {"crawl", "persist", "reap"}
             /\ (wk.pc = "finally" /\ wk.error = "") =>
                   {"crawl", "persist", "reap"} \subseteq wk.calls
             /\ (wk.pc = "notify" \/ (wk.pc = "finally" /\ wk.error = "")) =>
                   \A i \in 1..Len(wk.result) :
                      \E l \in listings :
                         /\ KeyOf(l) = KeyOf(wk.result[i])
                         /\ l.is_active

\* a zigbang run is about to return: it observed again the listing last
\* seen three days before, and its reaper has left that listing active
C12_Witness ==
    \E w \in Workers :
       /\ workers[w].task = "crawl_zigbang_listings"
       /\ workers[w].pc = "finally"
       /\ workers[w].error = ""
       /\ workers[w].result # <<>>
       /\ KeyOf(workers[w].result[1]) = KeyOf(SeenBefore)
       /\ \E l \in listings :
             KeyOf(l) = KeyOf(SeenBefore) /\ l.is_active
                                          /\ l.last_seen_at >= TaskEpoch

\* the step of worker w in which it calls the notifier
NotifierCalled(w) ==
    /\ "notify" \notin workers[w].calls
    /\ "notify" \in workers'[w].calls

\* C24: a run calls the notifier only from the point after the reaper, once,
\* after a persistence step that returned a count greater than zero; the
\* call, whatever the delivery did, leaves the run without an error and the
\* store as it was, and the run then returns the ok result of its crawl.
C24_NotifierHarmless ==
    [][\A w \in Workers :
          /\ NotifierCalled(w) =>
                /\ workers[w].pc = "notify"
                /\ workers[w].delivery = ""
                /\ "persist" \in workers[w].calls
                /\ workers[w].inserted > 0
                /\ workers[w].error = ""
                /\ workers'[w].pc = "finally"
                /\ workers'[w].error = ""
                /\ workers'[w].inserted = workers[w].inserted
                /\ workers'[w].result = workers[w].result
                /\ <<listings, price_changes, real_trades>>'
                      = <<listings, price_changes, real_trades>>
                /\ notifications' \in {notifications, notifications + 1}
          /\ (workers[w].pc = "finally" /\ workers'[w].pc = "done"
              /\ "notify" \in workers[w].calls) =>
                /\ workers'[w].ret = OkReturn(workers[w])
                /\ workers'[w].ret.count > 0
                /\ <<listings, price_changes, real_trades>>'
                      = <<listings, price_changes, real_trades>>
          /\ (notifications' # notifications) => \E v \in Workers : NotifierCalled(v)]_vars

\* a run whose delivery ended in an exception inside send has returned ok
\* with the count of its persistence step, and nothing was delivered
C24_Witness ==
    /\ notifications = 0
    /\ \E w \in Workers :
          /\ workers[w].pc = "done"
          /\ workers[w].delivery = "Exception"
          /\ workers[w].calls = {"crawl", "persist", "reap", "notify"}
          /\ workers[w].ret.status = "ok"
          /\ workers[w].ret.count > 0

\* the lock worker w set when it started, as the store keeps it
OwnLock(w) == workers[w].acquired_at + crawl_dedup_ttl_seconds

\* C27: the release at the end of a run removes only the lock that run
\* acquired: a worker inside the body whose lock has not reached its TTL
\* still has that lock in the store, whatever runs ended in the meantime,
\* so that no further worker can start under its key.
C27_ReleaseOwnLockOnly ==
    \A w \in Workers :
       (InBody(w) /\ now < OwnLock(w)) =>
          /\ workers[w].key \in DOMAIN locks
          /\ locks[workers[w].key] = OwnLock(w)
          /\ ~AcquireResult(taskiq_testing, locks, workers[w].key,
                            crawl_dedup_ttl_seconds, now).ok

----------------------------------------------------------------------------
(* ZigbangCrawler.run *)

MaxResponse == 2    \* items in one search or catalog response

\* a dict of a detail payload: the id _extract_source_id finds in it and
\* whether it has the minimal listing fields
Dict(source_id, core) == [source_id |-> source_id, core |-> core]

\* a detail payload: its "items", its "item", its "data" (<<>> when it is
\* not a dict) with the "items" and "item" of the data, and what the data
\* and the payload are as dicts themselves
DetailPayload(items, item, data, self) ==
    [items |-> items, item |-> item, data |-> data, self |-> self]

\* no dict of the payload parses
DetailUnparsable ==
    DetailPayload(<<>>, <<Dict("", TRUE)>>, <<>>, Dict("1", FALSE))

\* the one dict that parses is the "item" of the data
DetailOne ==
    DetailPayload(<<>>, <<>>,
                  <<[items |-> <<>>, item |-> <<Dict("1", TRUE)>>,
                     self |-> Dict("", FALSE)]>>,
                  Dict("", FALSE))

\* the second of the "items" parses, and so do the "item" and the payload
DetailSeveral ==
    DetailPayload(<<Dict("", TRUE), Dict("2", TRUE)>>, <<Dict("1", TRUE)>>,
                  <<>>, Dict("1", TRUE))

\* a search item: the id _extract_source_id finds ("" for none), whether it
\* has the minimal listing fields, what _fetch_item_details would give
\* for it (<<>> for None, or <<payload>>), and the keys of its "_source"
\* when that is a dict (<<>> when it is not)
SearchItems ==
    {[source_id |-> "", core |-> TRUE, detail |-> <<>>, _source |-> <<>>],
     [source_id |-> "1", core |-> TRUE, detail |-> <<>>, _source |-> <<{"a"}>>],
     [source_id |-> "2", core |-> TRUE, detail |-> <<>>,
      _source |-> <<{"a", "b"}>>],
     [source_id |-> "1", core |-> FALSE, detail |-> <<>>, _source |-> <<{}>>],
     [source_id |-> "1", core |-> FALSE, detail |-> <<DetailUnparsable>>,
      _source |-> <<{"b"}>>],
     [source_id |-> "1", core |-> FALSE, detail |-> <<DetailOne>>,
      _source |-> <<{"a"}>>],
     [source_id |-> "1", core |-> FALSE, detail |-> <<DetailSeveral>>,
      _source |-> <<{"c"}>>],
     [source_id |-> "2", core |-> FALSE, detail |-> <<>>, _source |-> <<>>]}

\* an apartment catalog item: the id _extract_apt_catalog_source_id finds,
\* and its tranType
CatalogItems ==
    {[source_id |-> "1", tranType |-> "trade"],
     [source_id |-> "", tranType |-> "charter"],
     [source_id |-> "1", tranType |-> "charter"],
     [source_id |-> "3", tranType |-> "rental"],
     [source_id |-> "1", tranType |-> "lease"]}

Responses(kind) ==
    SeqsUpTo(IF kind = "catalog" THEN CatalogItems ELSE SearchItems, MaxResponse)

\* the crawler as constructed: region_names, region_codes (<<>> for None),
\* property_types.  The Korean names of the source are written in Latin
\* letters: "apartment" is the property type the catalog path is taken for,
\* "jeonse" and "monthly" the two rent types a search is made for.
CrawlerConfigs ==
    {[region_names |-> <<>>, region_codes |-> <<>>,
      property_types |-> <<"apartment">>],
     [region_names |-> <<"Jongno-gu">>, region_codes |-> <<>>,
      property_types |-> <<"villa">>],
     [region_names |-> <<"Jongno-gu">>, region_codes |-> <<"11110">>,
      property_types |-> <<"apartment", "villa">>],
     [region_names |-> <<"Jongno-gu", "Jung-gu">>, region_codes |-> <<"11110">>,
      property_types |-> <<"apartment">>]}

ZigbangRow(source_id) == [source |-> "zigbang", source_id |-> source_id]

\* _parse_item: <<row>>, or <<>> for None
_parse_item(item) ==
    IF item.source_id = "" THEN <<>>
    ELSE IF ~item.core THEN <<>>
    ELSE <<ZigbangRow(item.source_id)>>

\* _parse_apt_catalog_item: <<row>>, or <<>> for None
_parse_apt_catalog_item(item) ==
    IF item.source_id = "" THEN <<>>
    ELSE IF item.tranType \notin {"charter", "rental"} THEN <<>>
    ELSE <<ZigbangRow(item.source_id)>>

\* the requests of one region and property type, in order
CellsOf(region_name, region_code, property_type) ==
    IF property_type = "apartment" /\ region_code # ""
    THEN <<[kind |-> "catalog", region_name |-> region_name,
            property_type |-> property_type, rent_type |-> ""]>>
    ELSE [i \in 1..2 |->
            [kind |-> "search", region_name |-> region_name,
             property_type |-> property_type,
             rent_type |-> <<"jeonse", "monthly">>[i]]]

RECURSIVE Flatten(_)
Flatten(seqs) == IF seqs = <<>> THEN <<>> ELSE Head(seqs) \o Flatten(Tail(seqs))

\* for region_idx, region_name ...: for property_type ...: the requests
Cells(cfg) ==
    Flatten([r \in 1..Len(cfg.region_names) |->
        Flatten([p \in 1..Len(cfg.property_types) |->
            CellsOf(cfg.region_names[r],
                    IF r <= Len(cfg.region_codes) THEN cfg.region_codes[r] ELSE "",
                    cfg.property_types[p])])])

\* tuple(sorted(item.keys())) of a search item, as far as the model tells
\* the keys of an item apart: the key of its id, its listing fields, and
\* its "_source"
SearchKeys(item) ==
    (IF item.source_id # "" THEN {"item_id"} ELSE {})
    \cup (IF item.core THEN {"deposit"} ELSE {})
    \cup (IF item._source # <<>> THEN {"_source"} ELSE {})

\* tuple(sorted(item.keys())) of a catalog item
CatalogKeys(item) ==
    (IF item.source_id # "" THEN {"areaHoId"} ELSE {}) \cup {"tranType"}

\* the variant without "len(schema_keys_sample) < 3"
SampleSchemaKeysUncapped(st, keys) ==
    IF keys # {} /\ keys \notin st.seen_schema_keys
    THEN [st EXCEPT !.seen_schema_keys = @ \cup {keys},
                    !.schema_keys_sample = Append(@, keys)]
    ELSE st

\* if top_level_keys and top_level_keys not in seen_schema_keys
\*    and len(schema_keys_sample) < 3: add and append
SampleSchemaKeys(st, keys) ==
    IF keys # {} /\ keys \notin st.seen_schema_keys
       /\ Len(st.schema_keys_sample) < 3
    THEN [st EXCEPT !.seen_schema_keys = @ \cup {keys},
                    !.schema_keys_sample = Append(@, keys)]
    ELSE st

\* source_payload = item.get("_source"); if isinstance(source_payload, dict):
\* the same with seen_source_keys and source_keys_sample
SampleSourceKeys(st, item) ==
    IF item._source # <<>> /\ item._source[1] # {}
       /\ item._source[1] \notin st.seen_source_keys
       /\ Len(st.source_keys_sample) < 3
    THEN [st EXCEPT !.seen_source_keys = @ \cup {item._source[1]},
                    !.source_keys_sample = Append(@, item._source[1])]
    ELSE st

\* what the _request_json_with_retry calls of one request of the run add
\* to self._retry_count and self._cooldown_count
RetryEvents == {[retries |-> 0, cooldowns |-> 0], [retries |-> 2, cooldowns |-> 1]}

NoRetryEvents == [retries |-> 0, cooldowns |-> 0]

MaxRetryEvents == 2  \* retries counted in one run

\* the events fit the retries the model counts in one run
Countable(events) == run.retry_events + events.retries <= MaxRetryEvents

\* self._retry_count += 1, self._cooldown_count += 1; the events of the run
\* are counted beside the code in retry_events and cooldown_events
Retried(st, events) ==
    [st EXCEPT !._retry_count = @ + events.retries,
               !._cooldown_count = @ + events.cooldowns,
               !.retry_events = @ + events.retries,
               !.cooldown_events = @ + events.cooldowns]

InvalidUncounted(st) == st

\* invalid_count += 1
Invalid(st) == [st EXCEPT !.invalid_count = @ + 1]

\* the variant that appends every row
KeepEvery(st, row) ==
    [st EXCEPT !.seen_listing_source_ids = @ \cup {row.source_id},
               !.all_rows = Append(@, row),
               !.parsed_count = @ + 1]

\* all_rows.append(row) unless the listing id was seen
Keep(st, row) ==
    IF row.source_id \in st.seen_listing_source_ids THEN st
    ELSE [st EXCEPT !.seen_listing_source_ids = @ \cup {row.source_id},
                    !.all_rows = Append(@, row),
                    !.parsed_count = @ + 1]

\* the body of "for item in apt_results"
CatalogItemStep(st0, item) ==
    LET st == SampleSchemaKeys(st0, CatalogKeys(item)) IN
    IF item.tranType = "trade" THEN st
    ELSE LET row == _parse_apt_catalog_item(item)
         IN IF row = <<>> THEN Invalid(st) ELSE Keep(st, row[1])

\* the dicts of a detail payload in the order they are tried: the "items",
\* the "item", the "items" and the "item" of the data, the data if it has
\* the minimal fields, the payload if it has them
_extract_detail_listing_candidates(payload) ==
    payload.items \o payload.item
    \o (IF payload.data = <<>> THEN <<>>
        ELSE payload.data[1].items \o payload.data[1].item
             \o (IF payload.data[1].self.core THEN <<payload.data[1].self>> ELSE <<>>))
    \o (IF payload.self.core THEN <<payload.self>> ELSE <<>>)

\* the variant without the break: the last dict that parses
RECURSIVE LastParsed(_)
LastParsed(candidates) ==
    IF candidates = <<>> THEN <<>>
    ELSE LET later == LastParsed(Tail(candidates))
         IN IF later # <<>> THEN later ELSE _parse_item(Head(candidates))

\* for detail_item in candidates: parsed_detail_row = _parse_item(...);
\* if parsed_detail_row: break
RECURSIVE FirstParsed(_)
FirstParsed(candidates) ==
    IF candidates = <<>> THEN <<>>
    ELSE LET row == _parse_item(Head(candidates))
         IN IF row # <<>> THEN row ELSE FirstParsed(Tail(candidates))

\* the id of the row a detail gives, "" when the fetch failed or no dict
\* of the payload parses
Candidate(item) ==
    IF item.detail = <<>> THEN ""
    ELSE LET row == FirstParsed(_extract_detail_listing_candidates(item.detail[1]))
         IN IF row = <<>> THEN "" ELSE row[1].source_id

\* detail_payload = await self._fetch_item_details(client, source_id); the
\* ids asked for are noted beside the code in detail_calls
FetchDetail(st, item, events) ==
    [Retried(st, events) EXCEPT !.detail_calls = Append(@, item.source_id)]

\* the body of "for item in search_results"
SearchItemStep(st0, item, events) ==
    LET st == SampleSourceKeys(SampleSchemaKeys(st0, SearchKeys(item)), item) IN
    IF item.source_id # "" /\ item.source_id \in st.seen_search_item_ids THEN st
    ELSE LET st1 == IF item.source_id # ""
                    THEN [st EXCEPT !.seen_search_item_ids = @ \cup {item.source_id}]
                    ELSE st
             row == _parse_item(item)
             st2 == FetchDetail(st1, item, events)
             detail_row ==
                IF item.detail = <<>> THEN <<>>
                ELSE FirstParsed(_extract_detail_listing_candidates(item.detail[1]))
         IN IF row # <<>> THEN Keep(st1, row[1])
            ELSE IF item.source_id = "" THEN Invalid(st1)
            ELSE IF item.detail = <<>> THEN Invalid(st2)
            ELSE IF detail_row # <<>> THEN Keep(st2, detail_row[1])
            ELSE Invalid(st2)

\* the variant that raises whenever nothing was parsed
RaisesOnNothingParsed(raw_item_count, parsed_count) == parsed_count = 0

\* if raw_item_count > 0 and parsed_count == 0: raise ZigbangSchemaMismatchError
RaisesMismatch(raw_item_count, parsed_count) ==
    raw_item_count > 0 /\ parsed_count = 0

Metrics(raw, parsed, invalid) ==
    [raw_count |-> raw, parsed_count |-> parsed, invalid_count |-> invalid]

\* the dict run() assigns to self.last_run_metrics
RunMetrics(st) ==
    Metrics(st.raw_item_count, st.parsed_count, st.invalid_count)
    @@ [retry_count |-> st._retry_count,
        cooldown_count |-> st._cooldown_count,
        schema_keys_sample |-> st.schema_keys_sample,
        source_keys_sample |-> st.source_keys_sample]

\* last_run_metrics as __init__ and the early return of run() set it
NoMetrics ==
    Metrics(0, 0, 0)
    @@ [retry_count |-> 0, cooldown_count |-> 0,
        schema_keys_sample |-> <<>>, source_keys_sample |-> <<>>]

CrawlResult(rows) == [count |-> Len(rows), rows |-> rows, errors |-> <<>>]

CrawlInit ==
    /\ StoreBlank
    /\ dialect = "postgresql"
    /\ now = 0
    /\ NoLocks
    /\ NoEnqueues
    /\ workers = [w \in Workers |-> IdleWorker]
    /\ notifications = 0
    /\ real_trades = <<>>
    /\ taskLog = [runs |-> 0, ticks |-> 0, overrun |-> FALSE]
    /\ NoLater
    /\ \E cfg \in CrawlerConfigs :
          run = [pc |-> "start", cfg |-> cfg, cells |-> <<>>, kind |-> "",
                 pending |-> <<>>, raw_item_count |-> 0, parsed_count |-> 0,
                 invalid_count |-> 0, all_rows |-> <<>>,
                 seen_search_item_ids |-> {}, seen_listing_source_ids |-> {},
                 detail_calls |-> <<>>,
                 _retry_count |-> 0, _cooldown_count |-> 0,
                 retry_events |-> 0, cooldown_events |-> 0,
                 schema_keys_sample |-> <<>>, source_keys_sample |-> <<>>,
                 seen_schema_keys |-> {}, seen_source_keys |-> {},
                 last_run_metrics |-> NoMetrics,
                 result |-> <<>>, raised |-> "", soft_failures |-> 0]

crawlFrame == <<storeVars, storeGhost, now, lockVars, lockGhost, enqueueVars,
                taskVars, laterVars>>

\* run() is entered: an empty region list returns at once
RunBegin ==
    /\ run.pc = "start"
    /\ run' = IF run.cfg.region_names = <<>>
              THEN [run EXCEPT !.pc = "returned",
                               !._retry_count = 0, !._cooldown_count = 0,
                               !.last_run_metrics = NoMetrics,
                               !.result = <<CrawlResult(<<>>)>>]
              ELSE [run EXCEPT !.pc = "request", !.cells = Cells(run.cfg),
                               !._retry_count = 0, !._cooldown_count = 0]
    /\ UNCHANGED crawlFrame

\* the next catalog or search request comes back with response, after the
\* retries and cooldowns of events
Fetch(response, events) ==
    /\ run.pc = "request"
    /\ run.cells # <<>>
    /\ response \in Responses(Head(run.cells).kind)
    /\ LET st == Retried(run, events)
       IN run' = IF response = <<>>
                 THEN [st EXCEPT !.cells = Tail(@)]
                 ELSE [st EXCEPT !.cells = Tail(@),
                                 !.kind = Head(run.cells).kind,
                                 !.pending = response,
                                 !.raw_item_count = @ + Len(response),
                                 !.pc = "items"]
    /\ UNCHANGED crawlFrame

\* the next catalog or search request fails softly: _request_json_with_retry
\* returns None, the cell has no results and the loop continues; the
\* failures are counted beside the code in soft_failures
FetchFails(events) ==
    /\ run.pc = "request"
    /\ run.cells # <<>>
    /\ run' = [Retried(run, events) EXCEPT !.cells = Tail(@),
                                           !.soft_failures = @ + 1]
    /\ UNCHANGED crawlFrame

\* one turn of the loop over the items of the response; events: the
\* retries and cooldowns of its detail requests, when it makes any
Item(events) ==
    /\ run.pc = "items"
    /\ LET item == Head(run.pending)
           st == IF run.kind = "catalog" THEN CatalogItemStep(run, item)
                 ELSE SearchItemStep(run, item, events)
       IN /\ st.detail_calls = run.detail_calls => events = NoRetryEvents
          /\ run' = [st EXCEPT !.pending = Tail(@),
                               !.pc = IF Tail(run.pending) = <<>> THEN "request"
                                      ELSE "items"]
    /\ UNCHANGED crawlFrame

\* after the loops: the metrics, then raise or return
RunEnd ==
    /\ run.pc = "request"
    /\ run.cells = <<>>
    /\ LET metrics == RunMetrics(run)
       IN run' = IF RaisesMismatch(run.raw_item_count, run.parsed_count)
                 THEN [run EXCEPT !.pc = "raised",
                                  !.last_run_metrics = metrics,
                                  !.raised = "ZigbangSchemaMismatchError"]
                 ELSE [run EXCEPT !.pc = "returned",
                                  !.last_run_metrics = metrics,
                                  !.result = <<CrawlResult(run.all_rows)>>]
    /\ UNCHANGED crawlFrame

CrawlNext ==
    \/ RunBegin
    \/ \E kind \in {"catalog", "search"} :
          \E response \in Responses(kind), events \in RetryEvents :
             Countable(events) /\ Fetch(response, events)
    \/ \E events \in RetryEvents : Countable(events) /\ FetchFails(events)
    \/ \E events \in RetryEvents : Countable(events) /\ Item(events)
    \/ RunEnd

SpecCrawl == CrawlInit /\ [][CrawlNext]_vars

\* C1: a run that has ended raised ZigbangSchemaMismatchError exactly when
\* its raw_count is positive and its parsed_count is zero; with raw_count
\* zero it returned CrawlResult(count=0, rows=[]); with parsed_count at
\* least one it returned, and parsed_count is the number of rows returned.
C1_MismatchExactly ==
    run.pc \in {"returned", "raised"} =>
        LET m == run.last_run_metrics
        IN /\ run.pc = "raised" <=> (m.raw_count > 0 /\ m.parsed_count = 0)
           /\ run.pc = "raised" <=> run.raised = "ZigbangSchemaMismatchError"
           /\ m.raw_count = 0 =>
                 /\ run.pc = "returned"
                 /\ run.result = <<[count |-> 0, rows |-> <<>>, errors |-> <<>>]>>
           /\ m.parsed_count >= 1 => run.pc = "returned"
           /\ run.pc = "returned" =>
                 /\ Len(run.result[1].rows) = m.parsed_count
                 /\ run.result[1].count = m.parsed_count

\* the run raised after items that failed to parse and an item skipped as
\* a sale
C1_Witness ==
    /\ run.pc = "raised"
    /\ run.last_run_metrics.raw_count >= 3
    /\ run.last_run_metrics.invalid_count >= 1
    /\ run.last_run_metrics.invalid_count < run.last_run_metrics.raw_count

\* whether the parser of the item's response kind returns None for it
Rejected(kind, item) ==
    IF kind = "catalog" THEN _parse_apt_catalog_item(item) = <<>>
    ELSE _parse_item(item) = <<>>

\* the turn of the loop that takes an item its parser rejects
RejectedItemStep == run.pc = "items" /\ Rejected(run.kind, Head(run.pending))

\* the turn goes on to the next item, or to the next request after the
\* last item, and drops no cell
GoesOn ==
    /\ run'.pending = Tail(run.pending)
    /\ run'.cells = run.cells
    /\ run'.pc = IF Tail(run.pending) = <<>> THEN "request" ELSE "items"
    /\ run'.raised = run.raised

\* C18 as stated: every item that lacks a non-empty identifier or the
\* minimal listing fields is counted as invalid and adds no row, and the
\* run goes on with the next item or cell.
C18_RejectedCountedInvalid ==
    [][RejectedItemStep =>
          /\ GoesOn
          /\ run'.invalid_count = run.invalid_count + 1
          /\ run'.parsed_count = run.parsed_count
          /\ run'.all_rows = run.all_rows]_vars

\* C18: an item its parser returns None for never ends the loop: the run
\* goes on with the next item or cell.  It is counted as invalid when it is
\* a catalog item other than a trade, a search item without identifier, or
\* a search item whose identifier is new to the run and whose detail is not
\* fetched or holds no parsable listing.  A catalog trade and a search item
\* whose identifier was seen before are passed over uncounted; a search
\* item with a new identifier whose detail holds a listing is counted as
\* parsed when that listing is new, and not counted when it is not.
C18_RejectedItems ==
    [][RejectedItemStep =>
          LET item == Head(run.pending)
              counted ==
                 IF run.kind = "catalog" THEN item.tranType # "trade"
                 ELSE \/ item.source_id = ""
                      \/ /\ item.source_id \notin run.seen_search_item_ids
                         /\ Candidate(item) = ""
              detailed ==
                 /\ run.kind = "search"
                 /\ item.source_id # ""
                 /\ item.source_id \notin run.seen_search_item_ids
                 /\ Candidate(item) # ""
                 /\ Candidate(item) \notin run.seen_listing_source_ids
          IN /\ GoesOn
             /\ run'.invalid_count = run.invalid_count + (IF counted THEN 1 ELSE 0)
             /\ run'.parsed_count = run.parsed_count + (IF detailed THEN 1 ELSE 0)
             /\ run'.all_rows = IF detailed
                                THEN Append(run.all_rows, ZigbangRow(Candidate(item)))
                                ELSE run.all_rows
             /\ run'.raw_item_count = run.raw_item_count]_vars

\* a run has returned whose only row came from the detail of a search item
\* without the minimal fields, after or before an item counted as invalid
C18_Witness ==
    /\ run.pc = "returned"
    /\ run.seen_search_item_ids = {"1"}
    /\ run.all_rows = <<ZigbangRow("2")>>
    /\ run.last_run_metrics.invalid_count >= 1
    /\ run.last_run_metrics.parsed_count = 1

\* C23: a request of one matrix cell that fails softly is described in
\* CrawlResult.errors, the rows collected so far are kept and the run goes
\* on with the next cell: a run that has returned lists as many errors as
\* requests of it have failed, and the failures alone have not made it
\* raise.
C23_SoftFailuresRecorded ==
    /\ run.pc = "returned" =>
          /\ run.result # <<>>
          /\ Len(run.result[1].errors) = run.soft_failures
          /\ run.result[1].rows = run.all_rows
    /\ run.pc = "raised" =>
          (run.raw_item_count > 0 /\ run.parsed_count = 0)

----------------------------------------------------------------------------
(* upsert_listings and deactivate_stale_listings as two transactions *)

(* Each call runs in a session of its own.  A statement is one step; what  *)
(* a transaction wrote stays invisible to the other one until it commits,  *)
(* and a statement that is to write a row the other transaction has       *)
(* written and not committed waits for that commit (PostgreSQL row locks   *)
(* under READ COMMITTED, the engine's default; SQLite lets one transaction *)
(* write at a time).                                                       *)

MaxRaceTicks == 2   \* clock advances in one behaviour

RaceClockStep == HOUR

\* the table when the two calls start: two zigbang listings and a naver
\* listing stored by earlier runs, the second seen 30 hours after the others
RaceSeed ==
    LET variant == <<50000, "jeonse", 0, "addr_a", "apt">>
    IN {NewListing(1, ListingUpsertOf(<<"zigbang", "1">>, variant), 0),
        NewListing(2, ListingUpsertOf(<<"zigbang", "2">>, variant), 30 * HOUR),
        NewListing(3, ListingUpsertOf(<<"naver", "1">>, variant), 0)}

RaceRows ==
    {ListingUpsertOf(<<"zigbang", "1">>, <<50000, "jeonse", 0, "addr_a", "apt">>),
     ListingUpsertOf(<<"zigbang", "1">>, <<48000, "jeonse", 0, "addr_a", "apt">>),
     ListingUpsertOf(<<"zigbang", "2">>, <<50000, "jeonse", 0, "addr_a", "apt">>),
     ListingUpsertOf(<<"zigbang", "3">>, <<50000, "jeonse", 0, "addr_a", "apt">>)}

RaceBatches == SeqsUpTo(RaceRows, MaxBatch) \ {<<>>}

Ids(rows) == {l.id : l \in rows}

\* the table with the written row versions put in place
Merge(ls, writes) == {l \in ls : l.id \notin Ids(writes)} \cup writes

\* the UPDATE of the reaper has waited for a row another transaction wrote:
\* the WHERE clause is evaluated again on the committed row, and the row is
\* skipped when it no longer matches
RecheckNever(l, source, threshold_hours, t) == TRUE

RecheckQual(l, source, threshold_hours, t) ==
    IsStale(l, source, threshold_hours, t)

RaceInit ==
    /\ listings = RaceSeed
    /\ price_changes = <<>>
    /\ next_id = 4
    /\ last = NoCall @@ [upserts |-> 0, reaps |-> 0, ticks |-> 0]
    /\ applied = [k \in ListingKeys |-> <<>>]
    /\ dialect \in {"postgresql", "sqlite"}
    /\ now = TaskEpoch
    /\ NoLocks
    /\ NoEnqueues
    /\ workers = [w \in Workers |-> IdleWorker]
    /\ notifications = 0
    /\ real_trades = <<>>
    /\ taskLog = [runs |-> 0, ticks |-> 0, overrun |-> FALSE]
    /\ run = NoRun
    /\ request = NoRequest
    /\ naver = NoNaver
    /\ tradeLog = NoTradeCall
    /\ search = NoSearch
    /\ favorites = {}
    /\ pages = NoPages
    /\ sleeps = NoSleeps
    /\ \E batch \in RaceBatches, source \in Sources, th \in Thresholds :
          race = [u |-> [pc |-> "start", batch |-> batch, rows |-> <<>>,
                         now |-> 0, existing |-> {}, writes |-> {},
                         changes |-> <<>>, count |-> 0],
                  r |-> [pc |-> "start", source |-> source,
                         threshold_hours |-> th, at |-> 0, targets |-> {},
                         writes |-> {}, skipped |-> {}, count |-> 0],
                  ticks |-> 0]

raceFrame == <<dialect, storeGhost, lockVars, lockGhost, enqueueVars, taskVars,
               crawlVars, requestVars, naverVars, tradeGhost, searchVars, favoriteVars, pageVars, sleepVars>>

\* upsert_listings up to the PostgreSQL path's SELECT of existing_map: the
\* rows deduplicated, now taken, the stored rows of the batch's keys read
UpsertBegin ==
    /\ race.u.pc = "start"
    /\ LET rows == DedupRows(race.u.batch)
       IN race' = [race EXCEPT
              !.u.pc = IF dialect = "postgresql" THEN "selected" ELSE "rows",
              !.u.rows = rows,
              !.u.now = now,
              !.u.existing =
                  IF dialect = "postgresql"
                  THEN {l \in listings :
                           \E i \in 1..Len(rows) : KeyOf(l) = KeyOf(rows[i])}
                  ELSE {}]
    /\ UNCHANGED <<listings, price_changes, next_id, now, raceFrame>>

\* the INSERT ... ON CONFLICT DO UPDATE statement
UpsertStatement ==
    /\ race.u.pc = "selected"
    /\ \A i \in 1..Len(race.u.rows) :
          Ids(Existing(listings, KeyOf(race.u.rows[i]))) \cap Ids(race.r.writes) = {}
    /\ LET st == PostgresRows(CallState(listings, <<>>, next_id),
                              race.u.rows, race.u.now)
       IN /\ next_id' = st.next_id
          /\ race' = [race EXCEPT
                 !.u.pc = "written",
                 !.u.writes = st.listings \ listings,
                 !.u.count = st.count,
                 !.u.changes = PostgresPriceChanges(race.u.existing,
                                                    race.u.rows, race.u.now)]
    /\ UNCHANGED <<listings, price_changes, now, raceFrame>>

\* one turn of the portable path's loop: the existence check sees the
\* table with the transaction's own writes; a price change goes to
\* upsert_price_changes, which raises there (the session closes and the
\* transaction's writes are lost) and would commit its row with all written
\* before; the UPDATE or the INSERT of the row follows
UpsertRow ==
    /\ race.u.pc = "rows"
    /\ race.u.rows # <<>>
    /\ race.r.writes = {}
    /\ LET view == Merge(listings, race.u.writes)
           st == FallbackRow(CallState(view, <<>>, next_id),
                             Head(race.u.rows), race.u.now)
           commits == st.price_changes # <<>>
       IN IF st.raised
          THEN /\ race' = [race EXCEPT !.u.pc = "raised", !.u.writes = {},
                                       !.u.count = 0]
               /\ UNCHANGED <<listings, price_changes, next_id>>
          ELSE /\ next_id' = st.next_id
               /\ listings' = IF commits THEN view ELSE listings
               /\ price_changes' = price_changes \o st.price_changes
               /\ race' = [race EXCEPT
                      !.u.rows = Tail(@),
                      !.u.writes = st.listings \ listings',
                      !.u.count = @ + st.count]
    /\ UNCHANGED <<now, raceFrame>>

\* await session.commit(), and the call returns
UpsertCommit ==
    /\ \/ race.u.pc = "written"
       \/ race.u.pc = "rows" /\ race.u.rows = <<>>
    /\ listings' = Merge(listings, race.u.writes)
    /\ price_changes' = price_changes \o race.u.changes
    /\ race' = [race EXCEPT !.u.pc = "done", !.u.writes = {}]
    /\ UNCHANGED <<next_id, now, raceFrame>>

\* threshold_time = datetime.now(UTC) - timedelta(hours=threshold_hours)
ReaperBegin ==
    /\ race.r.pc = "start"
    /\ race' = [race EXCEPT !.r.pc = "ready", !.r.at = now]
    /\ UNCHANGED <<listings, price_changes, next_id, now, raceFrame>>

\* the UPDATE statement starts on PostgreSQL: the rows that match in its
\* snapshot of the committed table
ReaperScan ==
    /\ race.r.pc = "ready"
    /\ dialect = "postgresql"
    /\ race' = [race EXCEPT
           !.r.pc = "scanned",
           !.r.targets = Ids(StaleRows(listings, race.r.source,
                                       race.r.threshold_hours, race.r.at))]
    /\ UNCHANGED <<listings, price_changes, next_id, now, raceFrame>>

\* the UPDATE statement writes: on PostgreSQL the rows of its snapshot that
\* still match once they are free, on SQLite the rows that match when the
\* database is free
ReaperStatement ==
    /\ \/ dialect = "postgresql" /\ race.r.pc = "scanned"
                                 /\ race.r.targets \cap Ids(race.u.writes) = {}
       \/ dialect = "sqlite" /\ race.r.pc = "ready" /\ race.u.writes = {}
    /\ LET r == race.r
           targets == IF dialect = "postgresql" THEN r.targets
                      ELSE Ids(StaleRows(listings, r.source, r.threshold_hours, r.at))
           hit == {l \in listings :
                      /\ l.id \in targets
                      /\ RecheckQual(l, r.source, r.threshold_hours, r.at)}
       IN race' = [race EXCEPT
              !.r.pc = "written",
              !.r.targets = targets,
              !.r.writes = {Deactivated(l, now) : l \in hit},
              !.r.skipped = targets \ Ids(hit),
              !.r.count = Cardinality(hit)]
    /\ UNCHANGED <<listings, price_changes, next_id, now, raceFrame>>

\* await session.commit(), and the call returns the number of rows
ReaperCommit ==
    /\ race.r.pc = "written"
    /\ listings' = Merge(listings, race.r.writes)
    /\ race' = [race EXCEPT !.r.pc = "done", !.r.writes = {}]
    /\ UNCHANGED <<price_changes, next_id, now, raceFrame>>

RaceTick ==
    /\ race.ticks < MaxRaceTicks
    /\ now' = now + RaceClockStep
    /\ race' = [race EXCEPT !.ticks = @ + 1]
    /\ UNCHANGED <<listings, price_changes, next_id, raceFrame>>

RaceNext ==
    \/ UpsertBegin
    \/ UpsertStatement
    \/ UpsertRow
    \/ UpsertCommit
    \/ ReaperBegin
    \/ ReaperScan
    \/ ReaperStatement
    \/ ReaperCommit
    \/ RaceTick

SpecRace == RaceInit /\ [][RaceNext]_vars

\* C11: once the upsert and the reaper have both finished, every listing
\* of the upsert's batch is stored active with last_seen_at the upsert's
\* now; and at no time is a committed row inactive whose last_seen_at is
\* within the reaper's threshold.
C11_ReobservedStaysActive ==
    /\ (race.u.pc = "done" /\ race.r.pc = "done") =>
          \A i \in 1..Len(race.u.batch) :
             \E l \in listings :
                /\ KeyOf(l) = KeyOf(race.u.batch[i])
                /\ l.is_active
                /\ l.last_seen_at = race.u.now
    /\ race.r.pc # "start" =>
          \A l \in listings :
             l.last_seen_at >= race.r.at - race.r.threshold_hours * HOUR
                => l.is_active

\* both have finished; the reaper's UPDATE had picked a row that the
\* upsert re-observed before the UPDATE could write it, and has
\* deactivated another one
C11_Witness ==
    /\ race.u.pc = "done"
    /\ race.r.pc = "done"
    /\ race.r.skipped # {}
    /\ race.r.count > 0
    /\ \E l \in listings : l.id \in race.r.skipped /\ l.is_active
                           /\ l.last_seen_at = race.u.now

\* C30: the rows of one run never hold two records with the same
\* source_id, whichever of the catalog path, the search path and a detail
\* payload the repeats came by, and the count a run returns is the number
\* of its rows.
C30_RowsDistinct ==
    /\ \A i, j \in 1..Len(run.all_rows) :
          run.all_rows[i].source_id = run.all_rows[j].source_id => i = j
    /\ run.pc = "returned" =>
          /\ run.result[1].rows = run.all_rows
          /\ run.result[1].count = Len(run.result[1].rows)

\* a run has returned one row for two search items that both passed the
\* filter of search ids: the second named, itself or by its detail
\* payload, the listing the first had given
C30_Witness ==
    /\ run.pc = "returned"
    /\ run.cfg.property_types = <<"villa">>
    /\ run.raw_item_count = 2
    /\ run.invalid_count = 0
    /\ run.seen_search_item_ids = {"1", "2"}
    /\ Len(run.result[1].rows) = 1

\* the turn of the loop that takes a search item
SearchTurn == run.pc = "items" /\ run.kind = "search"

\* the turn asked for the detail of its item
AskedDetail == run'.detail_calls # run.detail_calls

\* C31: in a search cell the detail is asked for only when the item's
\* summary failed to parse and the item has an identifier, and for no
\* identifier twice in a run; of the dicts of the payload, taken in their
\* fixed order, the first that parses gives the one row of the item; when
\* none parses or the fetch failed the item is counted invalid once.
C31_DetailFirstParseWins ==
    [][/\ ~SearchTurn => ~AskedDetail
       /\ SearchTurn =>
             LET item == Head(run.pending)
                 candidates ==
                    IF item.detail = <<>> THEN <<>>
                    ELSE _extract_detail_listing_candidates(item.detail[1])
                 parsable == {i \in 1..Len(candidates) :
                                 _parse_item(candidates[i]) # <<>>}
                 first == CHOOSE i \in parsable : \A j \in parsable : i <= j
             IN /\ AskedDetail =>
                      /\ _parse_item(item) = <<>>
                      /\ item.source_id # ""
                      /\ \A i \in 1..Len(run.detail_calls) :
                            run.detail_calls[i] # item.source_id
                      /\ run'.detail_calls = Append(run.detail_calls, item.source_id)
                /\ (AskedDetail /\ parsable # {}) =>
                      /\ run'.invalid_count = run.invalid_count
                      /\ run'.all_rows =
                            IF candidates[first].source_id \in run.seen_listing_source_ids
                            THEN run.all_rows
                            ELSE Append(run.all_rows,
                                        ZigbangRow(candidates[first].source_id))
                /\ (AskedDetail /\ parsable = {}) =>
                      /\ run'.invalid_count = run.invalid_count + 1
                      /\ run'.all_rows = run.all_rows]_vars

\* a run has returned that met the identifier "1" twice without the
\* minimal fields: the detail was asked for once, and of its three dicts
\* that parse the first, the listing "2", is the row
C31_Witness ==
    /\ run.pc = "returned"
    /\ run.raw_item_count = 2
    /\ run.detail_calls = <<"1">>
    /\ run.seen_search_item_ids = {"1"}
    /\ run.invalid_count = 0
    /\ run.all_rows = <<ZigbangRow("2")>>

\* C32: a run that raised the schema mismatch error had at least one raw
\* item rejected by the parser (invalid_count >= 1); a run whose raw items
\* were all passed over for another reason, such as catalog entries of
\* tranType trade, returns an empty result.
C32_MismatchMeansRejected ==
    /\ run.pc = "raised" => run.last_run_metrics.invalid_count >= 1
    /\ (/\ run.pc \in {"returned", "raised"}
        /\ run.last_run_metrics.parsed_count = 0
        /\ run.last_run_metrics.invalid_count = 0)
       => /\ run.pc = "returned"
          /\ run.result = <<CrawlResult(<<>>)>>

\* the entries of a sample are pairwise distinct
Distinct(sample) ==
    \A i, j \in 1..Len(sample) : sample[i] = sample[j] => i = j

----------------------------------------------------------------------------
(* ZigbangCrawler._request_json_with_retry *)

MaxCalls == 2       \* _request_json_with_retry calls in one run

\* seconds are counted in milliseconds, the jitter ratio in percent
DEFAULT_MAX_RETRIES == 4
DEFAULT_BASE_DELAY_SECONDS == 1000
DEFAULT_MAX_BACKOFF_SECONDS == 12000
DEFAULT_COOLDOWN_SECONDS == 20000
DEFAULT_COOLDOWN_THRESHOLD == 3
DEFAULT_JITTER_RATIO == 20

Only429 == {429}

RETRYABLE_HTTP_STATUS_CODES == {429, 500, 502, 503, 504}

Max(a, b) == IF a >= b THEN a ELSE b
Min(a, b) == IF a <= b THEN a ELSE b

\* __init__: the retry settings as the constructor clamps them
RetrySettings(max_retries, base_delay_seconds, max_backoff_seconds, cooldown_seconds, cooldown_threshold) ==
    LET base == Max(0, base_delay_seconds)
    IN [_max_retries |-> Max(0, max_retries),
        _base_delay_seconds |-> base,
        _max_backoff_seconds |-> Max(base, max_backoff_seconds),
        _cooldown_seconds |-> Max(0, cooldown_seconds),
        _cooldown_threshold |-> Max(1, cooldown_threshold),
        _jitter_ratio |-> Max(0, DEFAULT_JITTER_RATIO)]

\* the crawlers of the model: the defaults; a backoff capped from the third
\* attempt on; fewer retries than the cooldown threshold; arguments below
\* their minimum; no delay and a cooldown at every 429
RetryConfigs ==
    {RetrySettings(DEFAULT_MAX_RETRIES, DEFAULT_BASE_DELAY_SECONDS,
                   DEFAULT_MAX_BACKOFF_SECONDS, DEFAULT_COOLDOWN_SECONDS,
                   DEFAULT_COOLDOWN_THRESHOLD),
     RetrySettings(3, 1000, 3000, 20000, 3),
     RetrySettings(2, 1000, 12000, 20000, 3),
     RetrySettings(-1, 1000, 500, -1, 0),
     RetrySettings(2, 0, 0, 20000, 1)}

\* what client.get comes back with: a status and the kind of body, or with
\* status 0 the exception it raised instead of a response
HttpResponses ==
    {[status |-> 200, body |-> "object"],
     [status |-> 200, body |-> "array"],
     [status |-> 200, body |-> "undecodable"],
     [status |-> 429, body |-> ""],
     [status |-> 503, body |-> ""],
     [status |-> 404, body |-> ""],
     [status |-> 501, body |-> ""],
     [status |-> 0, body |-> "ConnectError"],
     [status |-> 0, body |-> "ReadTimeout"]}

\* the values random.uniform(-ratio, ratio) is drawn from, in percent
JitterDraws == {-20, 7, 20}

total_attempts(cfg) == cfg._max_retries + 1

RetriesEveryStatus(status_code) == TRUE

\* status_code in RETRYABLE_HTTP_STATUS_CODES
IsRetryable(status_code) == status_code \in RETRYABLE_HTTP_STATUS_CODES

BackoffUncapped(cfg, attempt) == cfg._base_delay_seconds * (2 ^ attempt)

backoff_seconds(cfg, attempt) ==
    Min(cfg._base_delay_seconds * (2 ^ attempt), cfg._max_backoff_seconds)

_apply_jitter(base_seconds, ratio) ==
    IF base_seconds <= 0 THEN 0
    ELSE Max(0, (base_seconds * (100 + ratio)) \div 100)

ExceptHttpxOnly(exc) == exc \in {"ConnectError", "ReadTimeout"}

\* except Exception: the classes it catches
ExceptException(exc) == exc \in {"ConnectError", "ReadTimeout", "JSONDecodeError"}

\* return value
Return(rq, value) == [rq EXCEPT !.pc = "returned", !.result = value]

\* an exception other than HTTPStatusError inside the try
OnException(rq, exc) ==
    IF ExceptException(exc) THEN Return(rq, None)
    ELSE [rq EXCEPT !.pc = "raised", !.raised = exc]

\* except httpx.HTTPStatusError
OnHTTPStatusError(rq, status_code, ratio) ==
    IF ~IsRetryable(status_code) THEN Return(rq, None)
    ELSE
      LET cfg == rq.cfg
          counted == [rq EXCEPT !._retry_count = @ + 1,
                                !.last_run_metrics.retry_count = rq._retry_count + 1]
      IN IF rq.attempt >= cfg._max_retries THEN Return(counted, None)
         ELSE
           LET consecutive == IF status_code = 429 THEN rq.consecutive_429 + 1
                              ELSE 0
               backoff == backoff_seconds(cfg, rq.attempt)
               cooldown == consecutive >= cfg._cooldown_threshold
               backoff_sleep == [why |-> "backoff",
                                 seconds |-> _apply_jitter(backoff, ratio)]
           IN [counted EXCEPT
                 !.consecutive_429 = IF cooldown THEN 0 ELSE consecutive,
                 !._cooldown_count = IF cooldown THEN @ + 1 ELSE @,
                 !.last_run_metrics.cooldown_count =
                     IF cooldown THEN rq._cooldown_count + 1 ELSE @,
                 !.sleeps = IF cooldown
                            THEN <<[why |-> "cooldown",
                                    seconds |-> cfg._cooldown_seconds],
                                   backoff_sleep>>
                            ELSE <<backoff_sleep>>,
                 !.backoffs = Append(@, backoff),
                 !.attempt = @ + 1]

\* the consecutive 429 responses of the whole run, counted beside the code:
\* run_429 is the count since the last other response or the last time the
\* count reached cooldown_threshold, due the number of times it reached it
CountedOverRun(rq, resp) ==
    LET n == IF resp.status = 429 THEN rq.run_429 + 1
             ELSE IF resp.status = 0 THEN rq.run_429 ELSE 0
        reached == n >= rq.cfg._cooldown_threshold
    IN [rq EXCEPT !.run_429 = IF reached THEN 0 ELSE n,
                  !.due = IF reached THEN @ + 1 ELSE @]

\* one turn of the loop over range(total_attempts) with the response resp
AttemptStep(rq, resp, ratio) ==
    LET got == [CountedOverRun(rq, resp) EXCEPT !.responses = Append(@, resp),
                                                 !.sleeps = <<>>]
    IN IF resp.status = 0 THEN OnException(got, resp.body)
       ELSE IF resp.status >= 400 THEN OnHTTPStatusError(got, resp.status, ratio)
       ELSE IF resp.body = "undecodable" THEN OnException(got, "JSONDecodeError")
       ELSE IF resp.body = "object" THEN Return(got, "payload")
       ELSE Return(got, None)

RetryInit ==
    /\ StoreBlank
    /\ dialect = "postgresql"
    /\ now = 0
    /\ NoLocks
    /\ NoEnqueues
    /\ workers = [w \in Workers |-> IdleWorker]
    /\ notifications = 0
    /\ real_trades = <<>>
    /\ taskLog = [runs |-> 0, ticks |-> 0, overrun |-> FALSE]
    /\ run = NoRun
    /\ race = NoRace
    /\ naver = NoNaver
    /\ tradeLog = NoTradeCall
    /\ search = NoSearch
    /\ favorites = {}
    /\ pages = NoPages
    /\ sleeps = NoSleeps
    /\ \E cfg \in RetryConfigs :
          request = [pc |-> "idle", cfg |-> cfg, calls |-> 0, attempt |-> 0,
                     consecutive_429 |-> 0, _retry_count |-> 0,
                     _cooldown_count |-> 0,
                     last_run_metrics |-> [retry_count |-> 0,
                                           cooldown_count |-> 0],
                     responses |-> <<>>, sleeps |-> <<>>, backoffs |-> <<>>,
                     result |-> "", raised |-> "", retry_before |-> 0,
                     prev |-> "", run_429 |-> 0, due |-> 0]

retryFrame == <<storeVars, storeGhost, now, lockVars, lockGhost,
                enqueueVars, taskVars, crawlVars, raceVars, naverVars,
                tradeGhost, searchVars, favoriteVars, pageVars, sleepVars>>

\* the run calls _request_json_with_retry: consecutive_429 = 0 and the loop
\* is entered
RequestBegin ==
    /\ request.pc \in {"idle", "returned"}
    /\ request.calls < MaxCalls
    /\ request' = [request EXCEPT
           !.pc = "loop", !.calls = @ + 1, !.attempt = 0,
           !.consecutive_429 = 0, !.responses = <<>>, !.sleeps = <<>>,
           !.backoffs = <<>>, !.result = "",
           !.retry_before = request._retry_count,
           !.prev = IF request.responses = <<>> THEN ""
                    ELSE IF request.responses[Len(request.responses)].status = 0
                         THEN request.responses[Len(request.responses)].body
                    ELSE IF request.result = "payload" THEN "payload"
                    ELSE "failed"]
    /\ UNCHANGED retryFrame

\* one attempt of the call that is running
Attempt(resp, ratio) ==
    /\ request.pc = "loop"
    /\ request.attempt < total_attempts(request.cfg)
    /\ request' = AttemptStep(request, resp, ratio)
    /\ UNCHANGED retryFrame

RetryNext ==
    \/ RequestBegin
    \/ \E resp \in HttpResponses, ratio \in JitterDraws :
          /\ ratio >= -request.cfg._jitter_ratio
          /\ ratio <= request.cfg._jitter_ratio
          /\ Attempt(resp, ratio)

SpecRetry == RetryInit /\ [][RetryNext]_vars

\* C13: one _request_json_with_retry call issues at most max_retries + 1
\* requests; a 200 response with a JSON object that arrives after nothing
\* but 429/500/502/503/504 responses is returned as the payload; when all
\* max_retries + 1 responses are 429/500/502/503/504 the call has returned
\* None and the retry-count metric has grown (once for each of them).
C13_AttemptBudget ==
    LET n == Len(request.responses)
        retried(i) == request.responses[i].status \in {429, 500, 502, 503, 504}
    IN /\ n <= request.cfg._max_retries + 1
       /\ (/\ n > 0
           /\ request.responses[n] = [status |-> 200, body |-> "object"]
           /\ \A i \in 1..(n - 1) : retried(i)) =>
              /\ request.pc = "returned"
              /\ request.result = "payload"
       /\ (/\ n = request.cfg._max_retries + 1
           /\ \A i \in 1..n : retried(i)) =>
              /\ request.pc = "returned"
              /\ request.result = None
              /\ request._retry_count = request.retry_before + n
              /\ request.last_run_metrics.retry_count > request.retry_before

\* the second call of a run gave up after max_retries + 1 responses of 429
\* and 503, the first one got its payload after two retries
C13_Witness ==
    /\ request.calls = 2
    /\ request.prev = "payload"
    /\ request.retry_before >= 2
    /\ request.pc = "returned"
    /\ request.cfg._max_retries >= 2
    /\ Len(request.responses) = request.cfg._max_retries + 1
    /\ request.result = None
    /\ \E i, j \in 1..Len(request.responses) :
          /\ request.responses[i].status = 429
          /\ request.responses[j].status = 503
    /\ request.responses[Len(request.responses)].status = 503

\* C14: an attempt answered with a 4xx status other than 429 ends the call:
\* it returns None with that request as its last one, sleeps nothing, and
\* leaves the retry-count and the cooldown-count metrics as they were.
C14_NonRetryableStops ==
    [][(/\ request.pc = "loop"
        /\ Len(request'.responses) = Len(request.responses) + 1
        /\ request'.responses[Len(request'.responses)].status
              \in (400..499) \ {429}) =>
           /\ request'.pc = "returned"
           /\ request'.result = None
           /\ request'.sleeps = <<>>
           /\ request'.attempt = request.attempt
           /\ request'._retry_count = request._retry_count
           /\ request'._cooldown_count = request._cooldown_count
           /\ request'.last_run_metrics = request.last_run_metrics]_vars

\* a call whose only request was answered 404, in a run whose metrics are
\* still zero
C14_Witness ==
    /\ request.pc = "returned"
    /\ request.responses = <<[status |-> 404, body |-> ""]>>
    /\ request.result = None
    /\ request.sleeps = <<>>
    /\ request._retry_count = 0
    /\ request._cooldown_count = 0

\* C15: the count of consecutive 429 responses is carried across the
\* requests of a run, and each time it reaches cooldown_threshold the
\* crawler sleeps cooldown_seconds once, increments the cooldown metric and
\* starts the count again: the cooldowns taken are those that count has
\* called for, and an attempt that takes one sleeps cooldown_seconds once.
C15_RunScopedCooldown ==
    /\ request._cooldown_count = request.due
    /\ request.last_run_metrics.cooldown_count = request.due
    /\ Cardinality({i \in 1..Len(request.sleeps) :
                       request.sleeps[i].why = "cooldown"}) <= 1

\* C16: the nominal delay after failed attempt k (from 0) of a call is
\* base_delay * 2^k, or max_backoff_seconds where that is smaller; the
\* nominal delays of a call never decrease; the backoff slept is the nominal
\* delay times a factor between 0.8 and 1.2, and is not negative.
C16_Backoff ==
    LET cfg == request.cfg
        nominal(k) == IF cfg._base_delay_seconds * (2 ^ k) <= cfg._max_backoff_seconds
                      THEN cfg._base_delay_seconds * (2 ^ k)
                      ELSE cfg._max_backoff_seconds
        n == Len(request.backoffs)
    IN /\ \A i \in 1..n : request.backoffs[i] = nominal(i - 1)
       /\ \A i \in 1..(n - 1) : request.backoffs[i] <= request.backoffs[i + 1]
       /\ \A i \in 1..Len(request.sleeps) :
             LET s == request.sleeps[i]
             IN /\ s.seconds >= 0
                /\ s.why = "backoff" =>
                      /\ n > 0
                      /\ 100 * s.seconds >= 80 * request.backoffs[n]
                      /\ 100 * s.seconds <= 120 * request.backoffs[n]

\* the third failed attempt of a call was followed by a sleep shorter than
\* its nominal delay, which max_backoff_seconds had capped
C16_Witness ==
    /\ request.pc = "loop"
    /\ Len(request.backoffs) = 3
    /\ request.backoffs[3] = request.cfg._max_backoff_seconds
    /\ request.backoffs[3] < request.cfg._base_delay_seconds * 4
    /\ request.backoffs[2] < request.backoffs[3]
    /\ \E i \in 1..Len(request.sleeps) :
          /\ request.sleeps[i].why = "backoff"
          /\ request.sleeps[i].seconds > 0
          /\ request.sleeps[i].seconds < request.backoffs[3]

\* C17: no exception leaves _request_json_with_retry: a call that met a
\* network error, a timeout, a body that is no JSON or a JSON body that is
\* no object has returned None, and the run can make its next call.
C17_NothingRaised ==
    /\ request.pc # "raised"
    /\ request.raised = ""
    /\ \A i \in 1..Len(request.responses) :
          (\/ request.responses[i].status = 0
           \/ request.responses[i] = [status |-> 200, body |-> "undecodable"]
           \/ request.responses[i] = [status |-> 200, body |-> "array"]) =>
             /\ i = Len(request.responses)
             /\ request.pc = "returned"
             /\ request.result = None
    /\ (request.pc = "returned" /\ request.calls < MaxCalls) => ENABLED RequestBegin

\* after a call that ended with a connection error, the next call of the
\* run met a body that is no JSON and returned None as well
C17_Witness ==
    /\ request.calls = 2
    /\ request.prev = "ConnectError"
    /\ request.pc = "returned"
    /\ request.result = None
    /\ request.responses # <<>>
    /\ request.responses[Len(request.responses)] =
          [status |-> 200, body |-> "undecodable"]

----------------------------------------------------------------------------
(* NaverCrawler.run *)

MaxArticles == 2    \* articles in one response

\* an article: articleNo (<<>> when the key is missing) and whether price1
\* is a string, as the API sends it, or a number
Articles ==
    {[articleNo |-> <<>>, price1 |-> "str"],
     [articleNo |-> <<"">>, price1 |-> "str"],
     [articleNo |-> <<"1">>, price1 |-> "str"],
     [articleNo |-> <<"2">>, price1 |-> "str"],
     [articleNo |-> <<"2">>, price1 |-> "int"]}

\* the article lists of a response
ArticleLists == SeqsUpTo(Articles, MaxArticles)

NaverRow(source_id) == [source |-> "naver", source_id |-> source_id]

\* str(article.get("articleNo", ""))
ArticleSourceId(article) ==
    IF article.articleNo = <<>> THEN "" ELSE article.articleNo[1]

\* _parse_article: <<row>>; _to_int raises AttributeError on a number, which
\* except (ValueError, KeyError) lets through
_parse_article(article) ==
    IF article.price1 = "int" THEN [raised |-> "AttributeError", row |-> <<>>]
    ELSE [raised |-> "", row |-> <<NaverRow(ArticleSourceId(article))>>]

\* for region_code ...: for property_type ...: for trade_type in B1, B2
NaverCells(region_codes, property_types) ==
    Flatten([r \in 1..Len(region_codes) |->
        Flatten([p \in 1..Len(property_types) |->
            [t \in 1..2 |-> [region_code |-> region_codes[r],
                             property_type |-> property_types[p],
                             trade_type |-> <<"B1", "B2">>[t]]]])])

NaverInit ==
    /\ StoreBlank
    /\ dialect = "postgresql"
    /\ now = 0
    /\ NoLocks
    /\ NoEnqueues
    /\ workers = [w \in Workers |-> IdleWorker]
    /\ notifications = 0
    /\ real_trades = <<>>
    /\ taskLog = [runs |-> 0, ticks |-> 0, overrun |-> FALSE]
    /\ run = NoRun
    /\ race = NoRace
    /\ request = NoRequest
    /\ tradeLog = NoTradeCall
    /\ search = NoSearch
    /\ favorites = {}
    /\ pages = NoPages
    /\ sleeps = NoSleeps
    /\ \E region_codes \in {<<"11110">>, <<"11110", "11140">>} :
          naver = [pc |-> "cell",
                   cells |-> NaverCells(region_codes, <<"APT">>),
                   pending |-> <<>>, all_rows |-> <<>>, errors |-> 0,
                   result |-> <<>>, attempt |-> 0, slept |-> <<>>,
                   last_request |-> <<>>]

naverFrame == <<storeVars, storeGhost, now, lockVars, lockGhost, enqueueVars,
                taskVars, crawlVars, raceVars, requestVars, tradeGhost, searchVars, favoriteVars, pageVars, sleepVars>>

\* _request_articles(..., max_retries: int = 3)
naver_max_retries == 3

\* the statuses raise_for_status raises for
NaverStatuses == {404, 429, 500, 503}

\* the request of a cell has ended after the attempts made so far and this
\* one: noted beside the code in last_request, with the status of the last
\* response, the sleeps between the attempts and how it ended
NaverRequestEnded(status, ended) ==
    <<[attempts |-> naver.attempt + 1, status |-> status,
       slept |-> naver.slept, ended |-> ended]>>

\* _request_articles returns the article list of the next cell: an attempt
\* is answered 200
NaverArticles(articles) ==
    /\ naver.pc = "cell"
    /\ naver.cells # <<>>
    /\ naver' = IF articles = <<>>
                THEN [naver EXCEPT !.cells = Tail(@), !.attempt = 0,
                                   !.slept = <<>>,
                                   !.last_request = NaverRequestEnded(200, "articles")]
                ELSE [naver EXCEPT !.cells = Tail(@), !.pending = articles,
                                   !.pc = "articles", !.attempt = 0,
                                   !.slept = <<>>,
                                   !.last_request = NaverRequestEnded(200, "articles")]
    /\ UNCHANGED naverFrame

\* if e.response.status_code == 429
NaverRetries(status) == status = 429

\* an attempt is answered with an error status.  429: sleep 2**attempt and
\* try again while attempt < max_retries - 1, then return []; every other
\* status is raised again and the cell's except appends the error
NaverRequestFails(status) ==
    /\ naver.pc = "cell"
    /\ naver.cells # <<>>
    /\ naver' =
          IF NaverRetries(status)
          THEN IF naver.attempt < naver_max_retries - 1
               THEN [naver EXCEPT !.attempt = @ + 1,
                                  !.slept = Append(@, 2 ^ naver.attempt)]
               ELSE [naver EXCEPT !.cells = Tail(@), !.attempt = 0,
                                  !.slept = <<>>,
                                  !.last_request = NaverRequestEnded(status, "empty")]
          ELSE [naver EXCEPT !.cells = Tail(@), !.errors = @ + 1,
                             !.attempt = 0, !.slept = <<>>,
                             !.last_request = NaverRequestEnded(status, "raised")]
    /\ UNCHANGED naverFrame

\* one turn of "for article in articles"
NaverArticle ==
    /\ naver.pc = "articles"
    /\ LET parsed == _parse_article(Head(naver.pending))
       IN naver' =
            IF parsed.raised # ""
            THEN [naver EXCEPT !.pending = <<>>, !.errors = @ + 1, !.pc = "cell"]
            ELSE [naver EXCEPT
                    !.pending = Tail(@),
                    !.all_rows = IF parsed.row # <<>> THEN @ \o parsed.row ELSE @,
                    !.pc = IF Tail(naver.pending) = <<>> THEN "cell"
                           ELSE "articles"]
    /\ UNCHANGED naverFrame

\* return CrawlResult(count=len(all_rows), rows=all_rows, errors=errors)
NaverReturn ==
    /\ naver.pc = "cell"
    /\ naver.cells = <<>>
    /\ naver' = [naver EXCEPT !.pc = "returned",
                              !.result = <<[count |-> Len(naver.all_rows),
                                            rows |-> naver.all_rows,
                                            errors |-> naver.errors]>>]
    /\ UNCHANGED naverFrame

NaverNext ==
    \/ \E articles \in ArticleLists : NaverArticles(articles)
    \/ \E status \in NaverStatuses : NaverRequestFails(status)
    \/ NaverArticle
    \/ NaverReturn

SpecNaver == NaverInit /\ [][NaverNext]_vars

\* C19: _parse_article returns None for an article whose articleNo is
\* missing or empty: no row with an empty source_id is among the rows a
\* Naver run has collected or returns.
C19_NoEmptySourceId ==
    /\ \A i \in 1..Len(naver.all_rows) : naver.all_rows[i].source_id # ""
    /\ naver.pc = "returned" =>
          \A i \in 1..Len(naver.result[1].rows) :
             naver.result[1].rows[i].source_id # ""

\* C33: a request of a Naver cell that ends on a 429 or 5xx response has
\* made max_retries + 1 attempts with a backoff sleep between them and
\* yields no articles; one that is answered another 4xx ends after one
\* attempt; and in every case the run goes on with the next cell.
C33_NaverRetryContract ==
    /\ naver.pc # "raised"
    /\ naver.last_request # <<>> =>
          LET rq == naver.last_request[1]
          IN /\ rq.status \in {429, 500, 502, 503, 504} =>
                   /\ rq.attempts = naver_max_retries + 1
                   /\ Len(rq.slept) = naver_max_retries
                   /\ rq.ended = "empty"
             /\ rq.status \in (400..499) \ {429} => rq.attempts = 1

----------------------------------------------------------------------------
(* upsert_real_trades called on its own *)

MaxTradeCalls == 3  \* upsert_real_trades calls in one behaviour
MaxTradeBatch == 2  \* rows in one upsert_real_trades call

\* the records of the model: one contract, with area_m2 None, 59 or 84 and
\* trade_category rent or sale
RealTradeUpserts ==
    {RealTradeUpsertOf(area_m2, trade_category) :
        area_m2 \in {<<>>, <<59>>, <<84>>}, trade_category \in {"rent", "sale"}}

TradeBatches == SeqsUpTo(RealTradeUpserts, MaxTradeBatch)

TradesInit ==
    /\ StoreBlank
    /\ dialect \in {"postgresql", "sqlite"}
    /\ now = 0
    /\ NoLocks
    /\ NoEnqueues
    /\ workers = [w \in Workers |-> IdleWorker]
    /\ notifications = 0
    /\ real_trades = <<>>
    /\ taskLog = [runs |-> 0, ticks |-> 0, overrun |-> FALSE]
    /\ run = NoRun
    /\ race = NoRace
    /\ request = NoRequest
    /\ naver = NoNaver
    /\ tradeLog = [seq |-> 0, fn |-> "", rows |-> <<>>, before |-> <<>>,
                   ret |-> 0, raised |-> FALSE, repeat |-> FALSE]
    /\ search = NoSearch
    /\ favorites = {}
    /\ pages = NoPages
    /\ sleeps = NoSleeps

tradesFrame == <<storeVars, storeGhost, now, lockVars, lockGhost, enqueueVars,
                 workers, notifications, taskLog, crawlVars, raceVars,
                 requestVars, naverVars, searchVars, favoriteVars, pageVars, sleepVars>>

\* what tradeLog keeps of a call of fn: its arguments, the table it found,
\* its return value and whether it repeats the batch of the call before it
TradeLogged(fn, rows, res) ==
    [seq |-> tradeLog.seq + 1, fn |-> fn, rows |-> rows, before |-> real_trades,
     ret |-> res.count, raised |-> res.raised,
     repeat |-> tradeLog.seq > 0 /\ rows = tradeLog.rows]

\* one call, committed
upsert_real_trades(rows) ==
    /\ tradeLog.seq < MaxTradeCalls
    /\ LET res == UpsertTradesResult(dialect, real_trades, rows)
       IN /\ real_trades' = res.real_trades
          /\ tradeLog' = TradeLogged("upsert_real_trades", rows, res)
    /\ UNCHANGED tradesFrame

\* one call, committed: the statements are those of upsert_real_trades, on
\* the same table
upsert_sale_trades(rows) ==
    /\ tradeLog.seq < MaxTradeCalls
    /\ LET res == UpsertTradesResult(dialect, real_trades, rows)
       IN /\ real_trades' = res.real_trades
          /\ tradeLog' = TradeLogged("upsert_sale_trades", rows, res)
    /\ UNCHANGED tradesFrame

TradesNext ==
    \/ \E rows \in TradeBatches : upsert_real_trades(rows)
    \/ \E rows \in TradeBatches : upsert_sale_trades(rows)

SpecTrades == TradesInit /\ [][TradesNext]_vars

\* how often the natural key of row (the columns of uq_real_trades_identity)
\* is stored in table
StoredTimes(table, row) ==
    Cardinality({i \in 1..Len(table) :
                    ConstraintIdentity(table[i]) = ConstraintIdentity(row)})

\* C20: a call of upsert_real_trades leaves the rows it found as they were,
\* adds no row whose natural key it found stored, and returns the number of
\* rows it added; a call that repeats the batch of the call before it
\* returns 0 and leaves the table unchanged, whether area_m2 is null or not.
C20_InsertOnly ==
    tradeLog.seq > 0 =>
       /\ Len(real_trades) >= Len(tradeLog.before)
       /\ SubSeq(real_trades, 1, Len(tradeLog.before)) = tradeLog.before
       /\ \A i \in 1..Len(tradeLog.rows) :
             StoredTimes(tradeLog.before, tradeLog.rows[i]) > 0 =>
                StoredTimes(real_trades, tradeLog.rows[i])
                   = StoredTimes(tradeLog.before, tradeLog.rows[i])
       /\ tradeLog.ret = Len(real_trades) - Len(tradeLog.before)
       /\ tradeLog.repeat =>
             /\ tradeLog.ret = 0
             /\ real_trades = tradeLog.before

\* C21: upsert_real_trades and upsert_sale_trades take a record for stored
\* only when its eleven-field natural key is stored: after a call every
\* record of its batch is in the table under that key, so that of two
\* records that differ only in trade_category both are stored, on either
\* storage path.
C21_ElevenFieldKey ==
    tradeLog.seq > 0 =>
       \A i \in 1..Len(tradeLog.rows) :
          StoredTimes(real_trades, tradeLog.rows[i]) > 0

----------------------------------------------------------------------------
(* search_rent and its cache *)

\* Optional arguments are <<>> (None) or <<x>>. Text is a sequence of
\* characters; area bounds and the column area_m2 are in
\* units of 10^-7 square metres, so that 33.0 and 33.0000004 are both values.

MaxSearches == 2
MaxSearchTicks == 2
listing_cache_ttl_seconds == 1800
SearchClockStep == listing_cache_ttl_seconds \div 2

EMPTY_RESULTS_MESSAGE == "listings only; real_trades are separate"

Some(x) == <<x>>
\* Python's truth value of an optional string: None and "" are false
Truthy(opt) == opt # <<>> /\ opt[1] # <<>>
\* value or "": the empty text is the empty sequence
OrEmpty(opt) == IF opt = <<>> THEN <<>> ELSE opt[1]

Lower(c) == CASE c = "J" -> "j" [] c = "M" -> "m" [] OTHER -> c
LowerText(text) == [i \in 1..Len(text) |-> Lower(text[i])]

\* column ILIKE '%pat%'
ILikeContains(text, pat) ==
    \E i \in 0..(Len(text) - Len(pat)) :
       SubSeq(LowerText(text), i + 1, i + Len(pat)) = LowerText(pat)

\* an area bound written with all its digits
FormatExact(x) == x
\* f"{x:.6f}": the area bound rounded to six decimals
Format6(x) == (x + 5) \div 10
FormatArea(opt) == IF opt = <<>> THEN <<>> ELSE <<Format6(opt[1])>>

\* json.dumps(filters, sort_keys=True); the 64-bit digest taken from it is
\* kept as the text it was computed from
build_search_cache_key(p, source, limit) ==
    [region_code |-> OrEmpty(p.region_code), dong |-> OrEmpty(p.dong),
     property_type |-> OrEmpty(p.property_type),
     rent_type |-> OrEmpty(p.rent_type),
     min_deposit |-> p.min_deposit, max_deposit |-> p.max_deposit,
     min_monthly_rent |-> p.min_monthly_rent,
     max_monthly_rent |-> p.max_monthly_rent,
     min_area |-> FormatArea(p.min_area), max_area |-> FormatArea(p.max_area),
     min_floor |-> p.min_floor, max_floor |-> p.max_floor,
     source |-> OrEmpty(source), limit |-> limit]

\* the WHERE clauses of fetch_listings
Matches(l, p, is_active) ==
    /\ is_active # <<>> => l.is_active = is_active[1]
    /\ Truthy(p.region_code) => ILikeContains(l.address, p.region_code[1])
    /\ Truthy(p.dong) => (l.dong # <<>> /\ ILikeContains(l.dong[1], p.dong[1]))
    /\ Truthy(p.property_type) => l.property_type = p.property_type[1]
    /\ Truthy(p.rent_type) => l.rent_type = p.rent_type[1]
    /\ p.min_deposit # <<>> => l.deposit >= p.min_deposit[1]
    /\ p.max_deposit # <<>> => l.deposit <= p.max_deposit[1]
    /\ p.min_monthly_rent # <<>> => l.monthly_rent >= p.min_monthly_rent[1]
    /\ p.max_monthly_rent # <<>> => l.monthly_rent <= p.max_monthly_rent[1]
    /\ p.min_area # <<>> => (l.area_m2 # <<>> /\ l.area_m2[1] >= p.min_area[1])
    /\ p.max_area # <<>> => (l.area_m2 # <<>> /\ l.area_m2[1] <= p.max_area[1])
    /\ p.min_floor # <<>> => (l.floor # <<>> /\ l.floor[1] >= p.min_floor[1])
    /\ p.max_floor # <<>> => (l.floor # <<>> /\ l.floor[1] <= p.max_floor[1])

\* ORDER BY last_seen_at DESC
RECURSIVE NewestFirst(_)
NewestFirst(rows) ==
    IF rows = {} THEN <<>>
    ELSE LET top == CHOOSE l \in rows :
                       \A m \in rows : m.last_seen_at <= l.last_seen_at
         IN <<top>> \o NewestFirst(rows \ {top})

FirstN(seq, n) == SubSeq(seq, 1, IF Len(seq) < n THEN Len(seq) ELSE n)

\* fetch_listings: filter, order, LIMIT
fetch_listings(ls, p, is_active, limit) ==
    FirstN(NewestFirst({l \in ls : Matches(l, p, is_active)}), limit)

\* ListingService.search_listings: the rows as dictionaries
search_listings(ls, p, is_active, limit) == fetch_listings(ls, p, is_active, limit)

\* the response search_rent builds after a store query
BuildResult(p, items) ==
    [query |-> p, count |-> Len(items), items |-> items, cache_hit |-> FALSE,
     message |-> IF Len(items) = 0 THEN <<EMPTY_RESULTS_MESSAGE>> ELSE <<>>]

\* the response search_rent builds from a cached value
FromCache(value) ==
    [value EXCEPT !.cache_hit = TRUE,
                  !.message = IF value.count = 0 /\ @ = <<>>
                              THEN <<EMPTY_RESULTS_MESSAGE>> ELSE @]

\* cache_get: the value under the key, if the key has not expired
cache_get(cache, key, t) ==
    IF \E e \in cache : e.key = key /\ t < e.expires_at
    THEN <<(CHOOSE e \in cache : e.key = key /\ t < e.expires_at)>>
    ELSE <<>>

\* cache_set: SET key value EX ttl_seconds
cache_set(cache, key, value, ttl_seconds, t, p) ==
    {e \in cache : e.key # key}
       \cup {[key |-> key, value |-> value, expires_at |-> t + ttl_seconds,
              by |-> p]}

\* the table the searches read
Jongno == <<"J", "o", "n", "g", "n", "o">>
Mapo == <<"M", "a", "p", "o">>
SearchRow(id, address, area, seen, active) ==
    [id |-> id, source |-> "zigbang", source_id |-> id,
     property_type |-> <<"v", "i", "l", "l", "a">>,
     rent_type |-> <<"m", "o", "n", "t", "h", "l", "y">>,
     deposit |-> 5000, monthly_rent |-> 50, address |-> address,
     dong |-> <<>>, area_m2 |-> <<area>>, floor |-> <<2>>,
     is_active |-> active, last_seen_at |-> seen]

SearchTable ==
    {SearchRow(1, Jongno, 330000000, 30, TRUE),
     SearchRow(2, Mapo, 500000000, 20, TRUE),
     SearchRow(3, Jongno, 450000000, 10, TRUE)}

\* the calls made: every filter but region_code and min_area is left out
SearchCalls ==
    [region_code : {<<>>, Some(<<>>), Some(<<"j", "o", "n", "g">>)},
     dong : {<<>>}, property_type : {<<>>}, rent_type : {<<>>},
     min_deposit : {<<>>}, max_deposit : {<<>>},
     min_monthly_rent : {<<>>}, max_monthly_rent : {<<>>},
     min_area : {<<>>, Some(330000000), Some(330000004)}, max_area : {<<>>},
     min_floor : {<<>>}, max_floor : {<<>>},
     limit : {1, 2}]

\* the filters of a call, without its limit
FiltersOf(call) ==
    [f \in DOMAIN call \ {"limit"} |-> call[f]]

SearchInit ==
    /\ listings = SearchTable
    /\ price_changes = <<>>
    /\ next_id = 4
    /\ dialect = "postgresql"
    /\ now = 0
    /\ last = NoCall
    /\ applied = [k \in ListingKeys |-> <<>>]
    /\ NoLocks
    /\ NoEnqueues
    /\ workers = [w \in Workers |-> IdleWorker]
    /\ notifications = 0
    /\ real_trades = <<>>
    /\ taskLog = [runs |-> 0, ticks |-> 0, overrun |-> FALSE]
    /\ run = NoRun
    /\ race = NoRace
    /\ request = NoRequest
    /\ naver = NoNaver
    /\ tradeLog = NoTradeCall
    /\ search = [calls |-> 0, ticks |-> 0, cache |-> {}, queries |-> 0,
                 call |-> <<>>, ret |-> <<>>, hit |-> <<>>]
    /\ favorites = {}
    /\ pages = NoPages
    /\ sleeps = NoSleeps

searchFrame == <<price_changes, next_id, dialect, storeGhost, lockVars, lockGhost,
                 enqueueVars, taskVars, crawlVars, raceVars, requestVars,
                 naverVars, tradeGhost, favoriteVars, pageVars, sleepVars>>

\* one call of the tool: the cached response, or a store query whose
\* response is cached
search_rent(call) ==
    /\ search.calls < MaxSearches
    /\ LET p == FiltersOf(call)
           cache_key == build_search_cache_key(p, <<>>, call.limit)
           cached == cache_get(search.cache, cache_key, now)
           result == BuildResult(call, search_listings(listings, p, Some(TRUE), call.limit))
       IN search' =
             IF cached # <<>>
             THEN [search EXCEPT !.calls = @ + 1, !.call = <<call>>,
                                 !.ret = <<FromCache(cached[1].value)>>,
                                 !.hit = cached]
             ELSE [search EXCEPT !.calls = @ + 1, !.call = <<call>>,
                                 !.ret = <<result>>, !.hit = <<>>,
                                 !.queries = @ + 1,
                                 !.cache = cache_set(@, cache_key, result,
                                                     listing_cache_ttl_seconds,
                                                     now, call)]
    /\ UNCHANGED <<listings, now, searchFrame>>

\* a writer takes a listing out of the active set
SearchDeactivate(id) ==
    /\ \E l \in listings : l.id = id /\ l.is_active
    /\ listings' = {IF l.id = id THEN [l EXCEPT !.is_active = FALSE] ELSE l :
                       l \in listings}
    /\ UNCHANGED <<search, now, searchFrame>>

SearchTick ==
    /\ search.ticks < MaxSearchTicks
    /\ now' = now + SearchClockStep
    /\ search' = [search EXCEPT !.ticks = @ + 1]
    /\ UNCHANGED <<listings, searchFrame>>

SearchNext ==
    \/ \E call \in SearchCalls : search_rent(call)
    \/ \E id \in {1, 3} : SearchDeactivate(id)
    \/ SearchTick

SpecSearch == SearchInit /\ [][SearchNext]_vars

\* two calls ask for the same thing: equal limits and equal filters, a
\* string filter left out and an empty one being the same filter
TextFilters == {"region_code", "dong", "property_type", "rent_type"}
SameSearch(a, b) ==
    \A f \in DOMAIN a :
       IF f \in TextFilters THEN OrEmpty(a[f]) = OrEmpty(b[f]) ELSE a[f] = b[f]

\* the unexpired entries a call of the same search has stored
StoredBySame(call) ==
    {e \in search.cache : SameSearch(e.by, call) /\ now < e.expires_at}

\* on a miss: one store query for the active listings, cache_hit false, and
\* the response stored under the key of the call
MissStep ==
    LET call == search'.call[1]
        ret == search'.ret[1]
    IN search'.hit = <<>> =>
          /\ ret.cache_hit = FALSE
          /\ search'.queries = search.queries + 1
          /\ ret.items = search_listings(listings, FiltersOf(call), Some(TRUE), call.limit)
          /\ \A i \in 1..Len(ret.items) : ret.items[i].is_active
          /\ ret.count = Len(ret.items)
          /\ \E e \in search'.cache :
                /\ e.key = build_search_cache_key(FiltersOf(call), <<>>, call.limit)
                /\ e.value = ret
                /\ e.expires_at = now + listing_cache_ttl_seconds

\* a repeat of a search whose entry has not expired: the same count and
\* items, cache_hit true, no store query
RepeatStep ==
    LET call == search'.call[1]
        ret == search'.ret[1]
    IN StoredBySame(call) # {} =>
          /\ ret.cache_hit = TRUE
          /\ search'.queries = search.queries
          /\ \E e \in StoredBySame(call) :
                ret.count = e.value.count /\ ret.items = e.value.items

\* a response taken from the cache was stored by a call of the same search
OwnEntryStep ==
    LET call == search'.call[1]
    IN search'.hit # <<>> => SameSearch(search'.hit[1].by, call)

\* C26: search_rent on a miss queries the store for active listings, answers
\* with cache_hit false and stores the answer under the key of its filters
\* and limit; a repeat while the entry is unexpired answers with the same
\* count and items, cache_hit true and no store query; and calls that differ
\* in a filter or in the limit never share a cache entry.
C26_SearchCache ==
    [][search'.calls # search.calls => (MissStep /\ RepeatStep /\ OwnEntryStep)]_vars

----------------------------------------------------------------------------
(* upsert_listings inside its session: statements, commits, failures *)

\* The session a call works in: the tables as committed, the tables as the
\* open transaction sees them, and the number of statements sent so far.
\* The statement numbered fail_at raises (0: none does); the caller's
\* session_context then closes the session, which rolls the open
\* transaction back.

MaxStatements == 7

Session(ls, pcs, nid, fail_at) ==
    [committed |-> [listings |-> ls, price_changes |-> pcs, next_id |-> nid],
     listings |-> ls, price_changes |-> pcs, next_id |-> nid, count |-> 0,
     stmts |-> 0, fail_at |-> fail_at, raised |-> FALSE]

\* session.close() after an exception
RolledBack(ss) ==
    [ss EXCEPT !.listings = ss.committed.listings,
               !.price_changes = ss.committed.price_changes,
               !.next_id = ss.committed.next_id,
               !.raised = TRUE]

\* await session.execute(stmt)
Execute(ss) ==
    LET sent == [ss EXCEPT !.stmts = @ + 1]
    IN IF sent.stmts = ss.fail_at THEN RolledBack(sent) ELSE sent

\* await session.commit()
Commit(ss) ==
    LET sent == Execute(ss)
    IN IF sent.raised THEN sent
       ELSE [sent EXCEPT !.committed =
                [listings |-> sent.listings,
                 price_changes |-> sent.price_changes,
                 next_id |-> sent.next_id]]

\* session.add(PriceChange(...)) for each row
AddPriceChanges(ss, rows) == [ss EXCEPT !.price_changes = @ \o rows]

\* upsert_price_changes(session, rows), portable path: for each row
\* session.add(PriceChange(**row.__dict__)), then session.commit()
upsert_price_changes(ss, rows) ==
    IF \E i \in 1..Len(rows) : ~HasDict(rows[i]) THEN RolledBack(ss)
    ELSE Commit(AddPriceChanges(ss, rows))

\* the portable path, one row: SELECT, then session.add, or
\* upsert_price_changes and UPDATE
SessionFallbackRow(ss, row, t) ==
    IF ss.raised THEN ss
    ELSE LET selected == Execute(ss)
             ex == Existing(selected.listings, KeyOf(row))
         IN IF selected.raised THEN selected
            ELSE IF ex = {}
            THEN [selected EXCEPT
                    !.listings = @ \cup {NewListing(selected.next_id, row, t)},
                    !.next_id = @ + 1,
                    !.count = @ + 1]
            ELSE LET old == CHOOSE l \in ex : TRUE
                     recorded ==
                        IF PriceDiffers(old, row)
                        THEN upsert_price_changes(selected,
                                <<PriceChangeRow(old.id, old.deposit,
                                                 old.monthly_rent, row, t)>>)
                        ELSE selected
                     updated == Execute(recorded)
                 IN IF recorded.raised THEN recorded
                    ELSE IF updated.raised THEN updated
                    ELSE [updated EXCEPT
                            !.listings = (@ \ {old}) \cup {UpdateListing(old, row, t)},
                            !.count = @ + 1]

RECURSIVE SessionFallbackRows(_, _, _)
SessionFallbackRows(ss, rows, t) ==
    IF rows = <<>> THEN ss
    ELSE SessionFallbackRows(SessionFallbackRow(ss, Head(rows), t), Tail(rows), t)

\* the PostgreSQL path: SELECT of existing_map, INSERT ... ON CONFLICT,
\* then upsert_price_changes (INSERT and commit) if there are price changes,
\* then session.commit(), which after the commit of upsert_price_changes
\* has no statement to send
SessionPostgres(ss, rows, t) ==
    LET selected == Execute(ss)
        inserted == Execute(selected)
        written == PostgresRows(inserted, rows, t)
        changes == PostgresPriceChanges(ss.listings, rows, t)
        sent == Execute(written)
        recorded == IF sent.raised THEN sent
                    ELSE Commit([sent EXCEPT !.price_changes = @ \o changes])
    IN IF selected.raised THEN selected
       ELSE IF inserted.raised THEN inserted
       ELSE IF changes # <<>> THEN recorded
       ELSE Commit(written)

\* upsert_listings(session, rows) in a session of its own: what is
\* committed when the call has returned or raised
SessionResult(dia, ls, pcs, nid, batch, t, fail_at) ==
    LET ss == Session(ls, pcs, nid, fail_at)
        rows == DedupRows(batch)
        done == IF batch = <<>> THEN ss
                ELSE IF dia = "postgresql" THEN SessionPostgres(ss, rows, t)
                ELSE Commit(SessionFallbackRows(ss, rows, t))
    IN [listings |-> done.committed.listings,
        price_changes |-> done.committed.price_changes,
        next_id |-> done.committed.next_id,
        count |-> IF done.raised THEN 0 ELSE done.count,
        raised |-> done.raised]

\* _persist_listings(rows): upsert_listings in a session_context of its own
_persist_listings(batch, fail_at) ==
    /\ last.upserts < MaxUpserts
    /\ LET res == SessionResult(dialect, listings, price_changes, next_id,
                                batch, now, fail_at)
       IN /\ listings' = res.listings
          /\ price_changes' = res.price_changes
          /\ next_id' = res.next_id
          /\ last' = [last EXCEPT !.seq = @ + 1, !.op = "upsert_listings",
                                  !.batch = batch, !.ret = res.count,
                                  !.raised = res.raised,
                                  !.repeat = (last.op = "upsert_listings"
                                              /\ last.batch = batch),
                                  !.pre_len = Len(price_changes),
                                  !.upserts = @ + 1]
    /\ UNCHANGED <<dialect, now, applied, notStore>>

AtomicInit ==
    /\ StoreBlank
    /\ dialect \in {"postgresql", "sqlite"}
    /\ now = 0
    /\ NoLocks
    /\ NoEnqueues
    /\ NoTasks

AtomicNext ==
    \E batch \in Batches, fail_at \in 0..MaxStatements :
       _persist_listings(batch, fail_at)

SpecAtomic == AtomicInit /\ [][AtomicNext]_vars

\* every price change row of a listing has been followed by the update it
\* describes: the newest row of a listing carries the pair the listing holds
Described(ls, pcs) ==
    \A l \in ls :
       LET own == {i \in 1..Len(pcs) : pcs[i].listing_id = l.id}
       IN own # {} =>
             LET newest == CHOOSE i \in own : \A j \in own : j <= i
             IN /\ pcs[newest].new_deposit = l.deposit
                /\ pcs[newest].new_monthly_rent = l.monthly_rent

\* C28: a call of upsert_listings that raises has committed none of its
\* Listing inserts or updates and none of its PriceChange rows, on both
\* paths, and no PriceChange row is ever committed without the listing
\* update it describes.
C28_AllOrNothing ==
    [][(last'.seq # last.seq) =>
          /\ last'.raised => <<listings, price_changes>>' = <<listings, price_changes>>
          /\ Described(listings', price_changes')]_vars

\* a call on the portable path has raised at its second row, a changed
\* price, after adding its first row, a new listing: neither is stored
C28_Witness ==
    /\ dialect = "sqlite"
    /\ last.op = "upsert_listings"
    /\ last.raised
    /\ Len(last.batch) = 2
    /\ Existing(listings, KeyOf(last.batch[1])) = {}
    /\ \E l \in Existing(listings, KeyOf(last.batch[2])) :
          PriceDiffers(l, last.batch[2])
    /\ price_changes = <<>>

----------------------------------------------------------------------------
(* The favorites and monitor_favorites *)

\* Favorite as FavoriteService.add_favorite stores it: the listing and the
\* prices it had when it was saved
Favorite(id, l) ==
    [id |-> id, listing_id |-> l.id,
     deposit_at_save |-> l.deposit, monthly_rent_at_save |-> l.monthly_rent]

\* FavoriteService.add_favorite(user_id, listing_id) for the one user of the
\* model: not_found, then upsert_favorites, which skips a favorite that is
\* stored and on the portable path raises on Favorite(**row.__dict__)
add_favorite(listing_id) ==
    /\ LET found == {l \in listings : l.id = listing_id /\ l.is_active}
           stored == {f \in favorites : f.listing_id = listing_id}
           row == Favorite(Cardinality(favorites) + 1, CHOOSE l \in found : TRUE)
       IN favorites' =
             IF found = {} \/ stored # {} THEN favorites
             ELSE IF dialect # "postgresql" /\ ~HasDict(row) THEN favorites
             ELSE favorites \cup {row}
    /\ UNCHANGED <<storeVars, now, storeGhost, lockVars, lockGhost, enqueueVars,
                   taskVars, crawlVars, raceVars, requestVars, naverVars,
                   tradeGhost, searchVars, pageVars, sleepVars>>

\* the changed_at of the payload monitor_favorites builds: not passed, so
\* the default of PriceChangeUpsert, None, written <<>>
MonitorChangedAtNow(t) == <<t>>

MonitorChangedAt(t) == <<>>

\* the rows of the join of Favorite and active Listing whose saved prices
\* are not the listing's
PriceMoved(favs, ls) ==
    {<<f, l>> \in favs \X ls :
        /\ f.listing_id = l.id
        /\ l.is_active
        /\ (f.deposit_at_save # l.deposit
            \/ f.monthly_rent_at_save # l.monthly_rent)}

\* the payloads of one run, in the order of the favorites' ids
RECURSIVE MonitorPayloads(_, _)
MonitorPayloads(moved, t) ==
    IF moved = {} THEN <<>>
    ELSE LET first == CHOOSE p \in moved : \A q \in moved : p[1].id <= q[1].id
         IN <<[listing_id |-> first[2].id,
               old_deposit |-> first[1].deposit_at_save,
               old_monthly_rent |-> first[1].monthly_rent_at_save,
               new_deposit |-> first[2].deposit,
               new_monthly_rent |-> first[2].monthly_rent,
               changed_at |-> MonitorChangedAt(t)]>>
            \o MonitorPayloads(moved \ {first}, t)

\* upsert_price_changes(session, rows) for rows whose changed_at may be
\* None.  PostgreSQL: one INSERT of asdict(row) for every row, a None sent as
\* NULL into changed_at, which is declared nullable=False: the statement
\* raises.  Portable path: PriceChange(**row.__dict__) raises; an object that
\* was built would be stored with the server default for a None.
StorePriceChanges(dia, pcs, rows, t) ==
    LET null == \E i \in 1..Len(rows) : rows[i].changed_at = <<>>
        raised == IF dia = "postgresql" THEN null
                  ELSE \E i \in 1..Len(rows) : ~HasDict(rows[i])
        stored == [i \in 1..Len(rows) |->
                     [rows[i] EXCEPT !.changed_at = IF @ = <<>> THEN t ELSE @[1]]]
    IN [price_changes |-> IF raised THEN pcs ELSE pcs \o stored,
        raised |-> raised]

\* one run of monitor_favorites, runs being one at a time (the execution
\* lock is taken and released): what is committed when it has returned or
\* raised
MonitorResult(dia, pcs, favs, ls, t) ==
    LET moved == PriceMoved(favs, ls)
        rows == MonitorPayloads(moved, t)
        recorded == IF rows = <<>> THEN [price_changes |-> pcs, raised |-> FALSE]
                    ELSE StorePriceChanges(dia, pcs, rows, t)
    IN [price_changes |-> recorded.price_changes,
        favorites |->
           IF recorded.raised THEN favs
           ELSE {IF \E p \in moved : p[1] = f
                 THEN LET l == CHOOSE l \in ls : l.id = f.listing_id
                      IN [f EXCEPT !.deposit_at_save = l.deposit,
                                   !.monthly_rent_at_save = l.monthly_rent]
                 ELSE f : f \in favs},
        changes_detected |-> Len(rows),
        raised |-> recorded.raised]

monitor_favorites ==
    /\ LET res == MonitorResult(dialect, price_changes, favorites, listings, now)
       IN /\ price_changes' = res.price_changes
          /\ favorites' = res.favorites
          /\ notifications' = IF res.raised \/ res.changes_detected = 0
                              THEN notifications ELSE notifications + 1
          /\ last' = [last EXCEPT !.op = "monitor_favorites", !.batch = <<>>,
                                  !.ret = res.changes_detected,
                                  !.raised = res.raised, !.repeat = FALSE,
                                  !.pre_len = Len(price_changes)]
    /\ UNCHANGED <<listings, next_id, dialect, now, applied, lockVars, lockGhost,
                   enqueueVars, workers, real_trades, taskLog, crawlVars,
                   raceVars, requestVars, naverVars, tradeGhost, searchVars, pageVars, sleepVars>>

FavoritesNext ==
    \/ \E batch \in Batches, fail_at \in 0..MaxStatements :
          _persist_listings(batch, fail_at)
    \/ \E listing_id \in 1..next_id : add_favorite(listing_id)
    \/ monitor_favorites

\* the record an earlier crawl has stored
FirstSeen == ListingUpsertOf(<<"zigbang", "1">>, <<50000, "jeonse", 0, "addr_a", "apt">>)

\* an empty store, or the store after a crawl that found one listing
FavoritesInit ==
    /\ \/ /\ listings = {}
          /\ next_id = 1
          /\ applied = [k \in ListingKeys |-> <<>>]
       \/ /\ listings = {NewListing(1, FirstSeen, 0)}
          /\ next_id = 2
          /\ applied = [k \in ListingKeys |->
                          IF k = KeyOf(FirstSeen) THEN <<FirstSeen>> ELSE <<>>]
    /\ price_changes = <<>>
    /\ last = NoCall @@ [upserts |-> 0, reaps |-> 0, ticks |-> 0]
    /\ dialect \in {"postgresql", "sqlite"}
    /\ now = 0
    /\ NoLocks
    /\ NoEnqueues
    /\ NoTasks

SpecFavorites == FavoritesInit /\ [][FavoritesNext]_vars

\* how many price change rows a listing has
RowCount(pcs, id) == Cardinality({i \in 1..Len(pcs) : pcs[i].listing_id = id})

\* the step changed the stored (deposit, monthly_rent) pair of the listing
PairChanged(id) ==
    \E l \in listings, m \in listings' :
       /\ l.id = id
       /\ m.id = id
       /\ <<l.deposit, l.monthly_rent>> # <<m.deposit, m.monthly_rent>>

\* each row of a listing starts from the prices its previous row ended with
Chained(pcs) ==
    \A i, j \in 1..Len(pcs) :
       (/\ i < j
        /\ pcs[i].listing_id = pcs[j].listing_id
        /\ \A k \in (i + 1)..(j - 1) : pcs[k].listing_id # pcs[i].listing_id)
       => /\ pcs[j].old_deposit = pcs[i].new_deposit
          /\ pcs[j].old_monthly_rent = pcs[i].new_monthly_rent

\* C29: over crawl-task and monitor_favorites runs, a listing gains one
\* PriceChange row exactly when an upsert changes its stored (deposit,
\* monthly_rent) pair, so its row count is the number of such changes; the
\* rows of a listing chain; a run of monitor_favorites adds no row for a
\* change upsert_listings has recorded; and no stored row is ever updated
\* or deleted.
C29_PriceChangeLedger ==
    [][/\ Len(price_changes') >= Len(price_changes)
       /\ SubSeq(price_changes', 1, Len(price_changes)) = price_changes
       /\ \A id \in 1..next_id' :
             RowCount(price_changes', id) =
                RowCount(price_changes, id) + (IF PairChanged(id) THEN 1 ELSE 0)
       /\ Chained(price_changes')
       /\ favorites' # favorites => price_changes' = price_changes]_vars

\* a favorite was saved at one price, two upserts have changed the price
\* and recorded it, and monitor_favorites has run over the difference
C29_Witness ==
    /\ last.op = "monitor_favorites"
    /\ last.ret = 1
    /\ \E f \in favorites, l \in listings :
          /\ f.listing_id = l.id
          /\ f.monthly_rent_at_save # l.monthly_rent
          /\ RowCount(price_changes, l.id) = 2
          /\ price_changes[1].old_deposit = f.deposit_at_save
          /\ price_changes[2].new_monthly_rent = l.monthly_rent

\* the step is a run of monitor_favorites
MonitorRun ==
    /\ last'.op = "monitor_favorites"
    /\ listings' = listings
    /\ Cardinality(favorites') = Cardinality(favorites)

\* C39: a run of monitor_favorites leaves every favorite on an active
\* listing whose saved prices differed from the listing's with the
\* listing's prices saved, reports each of them in the one message it
\* sends, and leaves nothing for a run that follows at once to detect.
C39_SnapshotsFollow ==
    [][MonitorRun =>
         LET moved == PriceMoved(favorites, listings)
         IN /\ \A p \in moved :
                  \E f \in favorites' :
                     /\ f.id = p[1].id
                     /\ f.deposit_at_save = p[2].deposit
                     /\ f.monthly_rent_at_save = p[2].monthly_rent
            /\ last'.ret = Cardinality(moved)
            /\ notifications' = notifications + (IF moved = {} THEN 0 ELSE 1)
            /\ PriceMoved(favorites', listings') = {}]_vars

----------------------------------------------------------------------------
(* The page loops: _fetch_apt_item_catalogs and PublicApiCrawler.run *)

\* page_size = 20
page_size == 20
\* if len(rows) < 1000: break
public_page_rows == 1000

\* The loops read offset and page_no only to compare them with what the
\* server reports, so the values beyond the largest total of the model are
\* kept as one; the rows collected are counted up to MaxCollected and the
\* requests sent modulo SentWrap, which keeps the model finite.
MaxOffset == 100
MaxPageNo == 3
MaxCollected == 100
SentWrap == 8
\* the property types, regions and months of a PublicApiCrawler.run
PublicCells == 2

\* what a catalog request gives: None, or a payload with the length of its
\* "list" and its "count" (0 when the key is missing)
CatalogPayloads ==
    {<<>>} \cup {<<[list |-> n, count |-> c]>> : n \in {0, 7, page_size},
                                                c \in {0, 20, 40}}

\* what a page request of the public API gives: an error, or the number of
\* rows _parse_xml finds
PublicPages ==
    {[raised |-> e, rows |-> 0] : e \in {"HTTPStatusError", "Exception"}}
    \cup {[raised |-> "", rows |-> n] : n \in {0, 500, public_page_rows}}

PagesInit ==
    /\ StoreBlank
    /\ dialect = "postgresql"
    /\ now = 0
    /\ NoLocks
    /\ NoEnqueues
    /\ workers = [w \in Workers |-> IdleWorker]
    /\ notifications = 0
    /\ real_trades = <<>>
    /\ taskLog = [runs |-> 0, ticks |-> 0, overrun |-> FALSE]
    /\ run = NoRun
    /\ race = NoRace
    /\ request = NoRequest
    /\ naver = NoNaver
    /\ tradeLog = NoTradeCall
    /\ search = NoSearch
    /\ favorites = {}
    /\ sleeps = NoSleeps
    /\ \E loop \in {"catalog", "public_api"} :
          pages = [pc |-> "request", loop |-> loop, offset |-> 0, page_no |-> 1,
                   collected |-> 0, errors |-> 0, sent |-> 0,
                   cells |-> IF loop = "catalog" THEN 1 ELSE PublicCells]

pagesFrame == <<storeVars, storeGhost, now, lockVars, lockGhost, enqueueVars,
                taskVars, crawlVars, raceVars, requestVars, naverVars,
                tradeGhost, searchVars, favoriteVars, sleepVars>>

\* one turn of "while True" in _fetch_apt_item_catalogs
CatalogPage(payload) ==
    /\ pages.pc = "request"
    /\ pages.loop = "catalog"
    /\ LET sent == [pages EXCEPT !.sent = (@ + 1) % SentWrap]
       IN pages' =
            IF payload = <<>> THEN [sent EXCEPT !.pc = "returned"]
            ELSE IF payload[1].list = 0 THEN [sent EXCEPT !.pc = "returned"]
            ELSE LET total_count == payload[1].count
                     offset == Min(pages.offset + page_size, MaxOffset)
                 IN [sent EXCEPT
                       !.collected = Min(@ + payload[1].list, MaxCollected),
                       !.offset = offset,
                       !.pc = IF payload[1].list < page_size THEN "returned"
                              ELSE IF total_count > 0 /\ offset >= total_count
                              THEN "returned"
                              ELSE "request"]
    /\ UNCHANGED pagesFrame

\* break: the next property type, region or month starts at page 1, and
\* after the last one the run returns
PublicBreak(st) ==
    IF st.cells > 1 THEN [st EXCEPT !.cells = @ - 1, !.page_no = 1]
    ELSE [st EXCEPT !.cells = 0, !.pc = "returned"]

\* one turn of "while True" in PublicApiCrawler.run
PublicPage(page) ==
    /\ pages.pc = "request"
    /\ pages.loop = "public_api"
    /\ LET sent == [pages EXCEPT !.sent = (@ + 1) % SentWrap]
           got == [sent EXCEPT !.collected = Min(@ + page.rows, MaxCollected)]
       IN pages' =
            IF page.raised # "" THEN PublicBreak([sent EXCEPT !.errors = @ + 1])
            ELSE IF page.rows = 0 THEN PublicBreak(sent)
            ELSE IF page.rows < public_page_rows THEN PublicBreak(got)
            ELSE [got EXCEPT !.page_no = Min(@ + 1, MaxPageNo)]
    /\ UNCHANGED pagesFrame

PagesNext ==
    \/ \E payload \in CatalogPayloads : CatalogPage(payload)
    \/ \E page \in PublicPages : PublicPage(page)

SpecPages == PagesInit /\ [][PagesNext]_vars

\* the crawler goes on taking its turns; what the server answers is free
SpecPagesFair == SpecPages /\ WF_vars(PagesNext)

\* C34: both page loops end, whatever the server answers: after a failed
\* request, an empty or a short page, or once the offset reaches the
\* reported total; they do not go on asking for pages while the server
\* keeps sending full pages with a missing or zero total.
C34_PageLoopsEnd == <>(pages.pc = "returned")

(***************************************************************************)
(* ZigbangCrawler.run: the sleeps of the cell loop                         *)
(*                                                                         *)
(* A cell is one (region, property type) of the catalog path or one       *)
(* (region, property type, rent type) of the search path.  A cell sleeps  *)
(* base_delay_seconds before its request, appends the rows it has not     *)
(* seen before to all_rows and then, once, tests                           *)
(*     if all_rows and len(all_rows) % 20 == 0                             *)
(* to sleep twice the base delay.  A cell whose response is empty leaves  *)
(* the loop body before the test.                                          *)
(***************************************************************************)
\* len(all_rows) % 20
extra_sleep_rows == 20

MaxCells == 4       \* cells of one run
\* the rows one cell adds to all_rows
CellNew == {0, 5, 15, 20, 25}

SleepsInit ==
    /\ StoreBlank
    /\ dialect = "postgresql"
    /\ now = 0
    /\ NoLocks
    /\ NoEnqueues
    /\ workers = [w \in Workers |-> IdleWorker]
    /\ notifications = 0
    /\ real_trades = <<>>
    /\ taskLog = [runs |-> 0, ticks |-> 0, overrun |-> FALSE]
    /\ run = NoRun
    /\ race = NoRace
    /\ request = NoRequest
    /\ naver = NoNaver
    /\ tradeLog = NoTradeCall
    /\ search = NoSearch
    /\ favorites = {}
    /\ pages = NoPages
    /\ sleeps = [pc |-> "cells", cell |-> 0, all_rows |-> 0, throttle |-> 0,
                 extra |-> 0]

sleepsFrame == <<storeVars, storeGhost, now, lockVars, lockGhost, enqueueVars,
                 taskVars, crawlVars, raceVars, requestVars, naverVars,
                 tradeGhost, searchVars, favoriteVars, pageVars>>

\* if all_rows and len(all_rows) % 20 == 0
ExtraSleepDue(all_rows) == all_rows > 0 /\ all_rows % extra_sleep_rows = 0

\* one cell of either path: the throttle sleep, the request, the rows of
\* the response that are new, and the test.  empty: the response had no
\* item ("if not apt_results: continue", "if not search_results: continue")
Cell(empty, new) ==
    /\ sleeps.pc = "cells"
    /\ sleeps.cell < MaxCells
    /\ empty => new = 0
    /\ LET rows == sleeps.all_rows + new
       IN sleeps' = [sleeps EXCEPT
                        !.cell = @ + 1,
                        !.throttle = @ + 1,
                        !.all_rows = rows,
                        !.extra = IF ~empty /\ ExtraSleepDue(rows)
                                  THEN @ + 1 ELSE @]
    /\ UNCHANGED sleepsFrame

\* the regions and property types are exhausted
CellsDone ==
    /\ sleeps.pc = "cells"
    /\ sleeps' = [sleeps EXCEPT !.pc = "done"]
    /\ UNCHANGED sleepsFrame

SleepsNext ==
    \/ \E empty \in BOOLEAN : \E new \in CellNew : Cell(empty, new)
    \/ CellsDone

SpecSleeps == SleepsInit /\ [][SleepsNext]_vars

\* C38: a run has slept twice the base delay once for every multiple of 20
\* that the number of its accumulated rows has reached, besides the
\* throttle sleep of each request.
C38_SleepEveryTwenty ==
    /\ sleeps.extra = sleeps.all_rows \div extra_sleep_rows
    /\ sleeps.throttle = sleeps.cell

----------------------------------------------------------------------------
(* The store under its two writers *)

\* where a natural key occurs in a batch, and its last occurrence
Occurrences(batch, k) == {i \in 1..Len(batch) : KeyOf(batch[i]) = k}

LastOccurrence(batch, k) ==
    batch[CHOOSE i \in Occurrences(batch, k) :
            \A j \in Occurrences(batch, k) : j <= i]

StoreInit ==
    /\ StoreBlank
    /\ dialect \in {"postgresql", "sqlite"}
    /\ now = 0
    /\ NoLocks
    /\ NoEnqueues
    /\ NoTasks

upsert_listings(batch) ==
    /\ last.upserts < MaxUpserts
    /\ LET res == UpsertResult(dialect, listings, price_changes, next_id, batch, now)
       IN /\ listings' = res.listings
          /\ price_changes' = res.price_changes
          /\ next_id' = res.next_id
          /\ last' = [last EXCEPT !.seq = @ + 1, !.op = "upsert_listings",
                                  !.batch = batch, !.ret = res.count,
                                  !.raised = res.raised,
                                  !.repeat = (last.op = "upsert_listings"
                                              /\ last.batch = batch),
                                  !.pre_len = Len(price_changes),
                                  !.upserts = @ + 1]
          /\ applied' = IF res.raised THEN applied
                         ELSE [k \in ListingKeys |->
                                 IF Occurrences(batch, k) = {} THEN applied[k]
                                 ELSE <<LastOccurrence(batch, k)>>]
    /\ UNCHANGED <<dialect, now, notStore>>

deactivate_stale_listings(source, threshold_hours) ==
    /\ last.reaps < MaxReaps
    /\ LET res == DeactivateResult(listings, source, threshold_hours, now)
       IN /\ listings' = res.listings
          /\ last' = [last EXCEPT !.seq = @ + 1, !.op = "deactivate_stale_listings",
                                  !.source = source,
                                  !.threshold_hours = threshold_hours,
                                  !.ret = res.count, !.raised = FALSE,
                                  !.repeat = FALSE,
                                  !.pre_len = Len(price_changes),
                                  !.reaps = @ + 1]
    /\ UNCHANGED <<price_changes, next_id, dialect, now, applied, notStore>>

Tick ==
    /\ last.ticks < MaxTicks
    /\ now' = now + ClockStep
    /\ last' = [last EXCEPT !.ticks = @ + 1]
    /\ UNCHANGED <<storeVars, applied, notStore>>

StoreNext ==
    \/ \E batch \in Batches : upsert_listings(batch)
    \/ \E source \in Sources, th \in Thresholds :
          deactivate_stale_listings(source, th)
    \/ Tick

SpecStore == StoreInit /\ [][StoreNext]_vars

----------------------------------------------------------------------------
(* Claims about the store *)

StoreCall(op) == last'.seq = last.seq + 1 /\ last'.op = op

\* the rows a call appended to price_changes
Appended == SubSeq(price_changes', Len(price_changes) + 1, Len(price_changes'))

\* C2: after any sequence of upsert_listings calls the store holds at most
\* one Listing row per (source, source_id); every key that was ever applied
\* has its row, and the row's deposit, monthly_rent and address are those of
\* the record most recently applied for the key, which within one batch is
\* the key's last occurrence.
C2_NaturalKeyUnique ==
    /\ \A l1, l2 \in listings : KeyOf(l1) = KeyOf(l2) => l1 = l2
    /\ \A l \in listings : KeyOf(l) \in ListingKeys /\ applied[KeyOf(l)] # <<>>
    /\ \A k \in ListingKeys :
          applied[k] # <<>> =>
             \E l \in listings :
                /\ KeyOf(l) = k
                /\ l.deposit = applied[k][1].deposit
                /\ l.monthly_rent = applied[k][1].monthly_rent
                /\ l.address = applied[k][1].address

\* a second call whose batch names one key twice, with different values,
\* on a key that was stored before
C2_Witness ==
    /\ last.op = "upsert_listings"
    /\ last.upserts = 2
    /\ Len(last.batch) = 2
    /\ KeyOf(last.batch[1]) = KeyOf(last.batch[2])
    /\ last.batch[1].deposit # last.batch[2].deposit
    /\ \E l \in listings :
          /\ KeyOf(l) = KeyOf(last.batch[2])
          /\ l.first_seen_at < l.last_seen_at
          /\ l.deposit = last.batch[2].deposit

\* C3: an upsert_listings call that meets an existing listing whose stored
\* deposit or monthly_rent differs from the incoming record appends exactly
\* one PriceChange row for that listing, carrying the stored values as old
\* and the incoming values as new, and the listing then holds the incoming
\* values; a first insert, or an update with equal prices, appends none;
\* the rows already in price_changes stay as they are.
C3_Step ==
    StoreCall("upsert_listings") =>
        /\ SubSeq(price_changes', 1, Len(price_changes)) = price_changes
        /\ Len(price_changes') >= Len(price_changes)
        /\ \A k \in ListingKeys :
              LET batch == last'.batch
                  stored == {l \in listings : KeyOf(l) = k}
                  after == {l \in listings' : KeyOf(l) = k}
                  mine == {i \in 1..Len(Appended) :
                             \E l \in after : Appended[i].listing_id = l.id}
              IN IF Occurrences(batch, k) = {}
                 THEN mine = {} /\ after = stored
                 ELSE LET row == LastOccurrence(batch, k)
                      IN /\ \E l \in after :
                               l.deposit = row.deposit
                               /\ l.monthly_rent = row.monthly_rent
                         /\ IF \E old \in stored :
                                  \/ old.deposit # row.deposit
                                  \/ old.monthly_rent # row.monthly_rent
                            THEN /\ Cardinality(mine) = 1
                                 /\ \A i \in mine : \E old \in stored :
                                       /\ Appended[i].listing_id = old.id
                                       /\ Appended[i].old_deposit = old.deposit
                                       /\ Appended[i].old_monthly_rent = old.monthly_rent
                                       /\ Appended[i].new_deposit = row.deposit
                                       /\ Appended[i].new_monthly_rent = row.monthly_rent
                            ELSE mine = {}
        /\ \A i \in 1..Len(Appended) :
              \E l \in listings : Appended[i].listing_id = l.id

C3_PriceChangeAudit == [][C3_Step]_vars

\* the call just made lowered a stored deposit of 50000 to 48000 and
\* appended the one row that says so
C3_Witness ==
    /\ last.op = "upsert_listings"
    /\ Len(price_changes) = last.pre_len + 1
    /\ price_changes[Len(price_changes)].old_deposit = 50000
    /\ price_changes[Len(price_changes)].new_deposit = 48000
    /\ \E l \in listings :
          /\ l.id = price_changes[Len(price_changes)].listing_id
          /\ l.deposit = 48000

\* C4: when upsert_listings is called twice in a row with the same batch,
\* the second call returns what the first returned, adds no Listing row and
\* no PriceChange row, and changes no listing field other than the
\* timestamps last_seen_at and updated_at; the batch's listings are active.
C4_Step ==
    (StoreCall("upsert_listings") /\ last.op = "upsert_listings"
       /\ last'.batch = last.batch /\ ~last.raised) =>
        /\ ~last'.raised
        /\ last'.ret = last.ret
        /\ price_changes' = price_changes
        /\ Cardinality(listings') = Cardinality(listings)
        /\ \A l \in listings :
              \E m \in listings' :
                 /\ m = [l EXCEPT !.last_seen_at = m.last_seen_at,
                                  !.updated_at = m.updated_at]
                 /\ Occurrences(last.batch, KeyOf(l)) = {} => m = l
                 /\ Occurrences(last.batch, KeyOf(l)) # {} => m.is_active

C4_Idempotent == [][C4_Step]_vars

\* the same non-empty batch was applied twice, the second time later
C4_Witness ==
    /\ last.op = "upsert_listings"
    /\ last.repeat
    /\ Len(last.batch) = 2
    /\ last.ret = 2
    /\ \E l \in listings :
          /\ Occurrences(last.batch, KeyOf(l)) # {}
          /\ l.first_seen_at < l.last_seen_at

\* the listings deactivate_stale_listings(source, threshold_hours) is to hit
C10_Target(source, threshold_hours) ==
    {l \in listings :
        /\ l.source = source
        /\ l.is_active
        /\ l.last_seen_at < now - threshold_hours * 3600}

\* C10 as stated: is_active=false on exactly the active listings of the
\* source older than the threshold, their number returned, and no other
\* listing and no other field changed.
C10_Step_NoOtherField ==
    StoreCall("deactivate_stale_listings") =>
        LET target == C10_Target(last'.source, last'.threshold_hours)
        IN /\ last'.ret = Cardinality(target)
           /\ listings' = (listings \ target)
                            \cup {[l EXCEPT !.is_active = FALSE] : l \in target}
           /\ price_changes' = price_changes

C10_NoOtherField == [][C10_Step_NoOtherField]_vars

\* C10 amended: as stated, except that the UPDATE also refreshes updated_at
\* of the listings it deactivates (the column's onupdate); every other
\* field, every other listing and price_changes stay as they are.
C10_Step ==
    StoreCall("deactivate_stale_listings") =>
        LET target == C10_Target(last'.source, last'.threshold_hours)
        IN /\ last'.ret = Cardinality(target)
           /\ listings' = (listings \ target)
                            \cup {[l EXCEPT !.is_active = FALSE,
                                            !.updated_at = now] : l \in target}
           /\ price_changes' = price_changes

C10_ReaperFrame == [][C10_Step]_vars

\* a pass that deactivated a listing and left alone an equally old listing
\* of another source and a listing exactly at the threshold
C10_Witness ==
    /\ last.op = "deactivate_stale_listings"
    /\ last.ret >= 1
    /\ \E l \in listings : l.source = last.source /\ ~l.is_active
    /\ \E l \in listings :
          /\ l.source # last.source
          /\ l.is_active
          /\ l.last_seen_at < now - last.threshold_hours * 3600
    /\ \E l \in listings :
          /\ l.source = last.source
          /\ l.is_active
          /\ l.last_seen_at = now - last.threshold_hours * 3600

\* a Listing row without its surrogate id, and a PriceChange row with the
\* natural key of its listing in the place of listing_id
ListingFields(l) ==
    [source |-> l.source, source_id |-> l.source_id,
     property_type |-> l.property_type, rent_type |-> l.rent_type,
     deposit |-> l.deposit, monthly_rent |-> l.monthly_rent,
     address |-> l.address, is_active |-> l.is_active,
     first_seen_at |-> l.first_seen_at, last_seen_at |-> l.last_seen_at,
     created_at |-> l.created_at, updated_at |-> l.updated_at]

ChangeFields(ls, pc) ==
    [listing |-> {KeyOf(l) : l \in {x \in ls : x.id = pc.listing_id}},
     old_deposit |-> pc.old_deposit, old_monthly_rent |-> pc.old_monthly_rent,
     new_deposit |-> pc.new_deposit, new_monthly_rent |-> pc.new_monthly_rent,
     changed_at |-> pc.changed_at]

\* what a call leaves, as the two paths are compared: the Listing rows, the
\* PriceChange rows in order, and the return value
Outcome(res) ==
    [listings |-> {ListingFields(l) : l \in res.listings},
     price_changes |-> [i \in 1..Len(res.price_changes) |->
                           ChangeFields(res.listings, res.price_changes[i])],
     count |-> res.count,
     raised |-> res.raised]

\* C22: whatever the store holds when upsert_listings is called with a
\* batch, the PostgreSQL path and the portable path leave the same Listing
\* rows (every field but the id), the same PriceChange rows and return the
\* same count.
C22_PathsAgree ==
    [][StoreCall("upsert_listings") =>
          Outcome(UpsertResult("postgresql", listings, price_changes, next_id,
                               last'.batch, now))
          = Outcome(UpsertResult("sqlite", listings, price_changes, next_id,
                                 last'.batch, now))]_vars

\* C36: an update through upsert_listings leaves the property_type and the
\* rent_type of a stored listing as they were at its first insert, on both
\* paths, also when the incoming record of the key carries other values.
C36_TypesKept ==
    [][\A l \in listings, m \in listings' :
          l.id = m.id =>
             /\ m.property_type = l.property_type
             /\ m.rent_type = l.rent_type]_vars

\* a listing inserted as jeonse has been updated by a record that is
\* monthly with a monthly rent: the rent is stored, the rent_type is not
C36_Witness ==
    /\ last.op = "upsert_listings"
    /\ ~last.raised
    /\ \E l \in listings :
          /\ l.rent_type = "jeonse"
          /\ l.monthly_rent = 30
          /\ \E i \in 1..Len(last.batch) :
                /\ KeyOf(last.batch[i]) = KeyOf(l)
                /\ last.batch[i].rent_type = "monthly"

\* C37: every listing has first_seen_at <= last_seen_at; the id and the
\* first_seen_at of a natural key never change after its insert and its
\* last_seen_at never decreases; and a listing the reaper has deactivated
\* is active again after the next upsert of its key.
C37_SeenTimes ==
    [][/\ \A m \in listings' : m.first_seen_at <= m.last_seen_at
       /\ \A l \in listings :
             \E m \in listings' :
                /\ KeyOf(m) = KeyOf(l)
                /\ m.id = l.id
                /\ m.first_seen_at = l.first_seen_at
                /\ m.last_seen_at >= l.last_seen_at
                /\ (/\ StoreCall("upsert_listings")
                    /\ ~last'.raised
                    /\ Occurrences(last'.batch, KeyOf(l)) # {})
                   => m.is_active /\ m.last_seen_at = now]_vars

\* a listing was inserted, deactivated by a later reaper pass and then
\* upserted again: it is active, first seen at its insert
C37_Witness ==
    /\ dialect = "postgresql"
    /\ last.op = "upsert_listings"
    /\ \E l \in listings :
          /\ Occurrences(last.batch, KeyOf(l)) # {}
          /\ l.is_active
          /\ l.first_seen_at < l.updated_at
          /\ l.updated_at <= l.last_seen_at

====
